---- MODULE Spec2Model ----
(***************************************************************************)
(* Hedged requests of dentiny/duckdb-hedged-request.                       *)
(*                                                                         *)
(* A caller thread runs one hedged operation (a "race") at a time:         *)
(* HedgedFileSystem::OpenFile / HedgedRequest issues a primary attempt,    *)
(* waits on the race's Token for the delay threshold, issues hedges, takes *)
(* the first ready attempt (WaitForAny) and hands the attempts that are    *)
(* not ready to HedgedRequestFsEntry (AddPendingRequest).  Every attempt   *)
(* is a FutureWrapper whose worker thread runs the wrapped operation.      *)
(*                                                                         *)
(* Time is discrete.  One Tick is one scheduling quantum; a step of a      *)
(* thread that is not blocked takes no time, so Tick is enabled only when  *)
(* every thread is asleep, blocked or idle.  Events that fall into the     *)
(* same quantum (a timer expiry and a worker's completion, say) are taken  *)
(* in every order.                                                         *)
(***************************************************************************)
EXTENDS Integers, Sequences, FiniteSets, TLC

\* ------------------------------------------------------------------ bounds
\* Largest latency, in ticks, of the wrapped operation (MockFileSystem::SetDelay).
MaxLatency == 4
\* Largest number of losers the registry holds; a race starts only when its
\* losers still fit.
MaxPending == 2
\* Largest number of write and mutate operations a run calls.
MaxWrites == 3
\* The number of entries of the directory that ListFiles lists.
NumFiles == 2
\* Largest number of sub systems the virtual file system holds.
MaxSubs == 3
\* Largest number of HedgedFileSystem wrappers around one file system.
MaxWrap == 2
\* The calls of HedgedRead on one file handle.
MaxReads == 2
\* Width, in bits, of the integers of the configuration settings
\* (uint64_t, int64_t and size_t in the program).
Width == 3

\* ------------------------------------------------------- program constants
\* DEFAULT_HEDGING_DELAYS_MS[OPEN_FILE] = 3000 ms; one tick is 1000 ms.
DEFAULT_HEDGING_DELAY == 3
DEFAULT_MAX_HEDGED_REQUEST_COUNT == 3

\* The caller of the specifications that run one race at a time.
OneCaller == {"c1"}
\* The callers of the specification that runs two races side by side.
TwoCallers == {"c1", "c2"}
Latencies == 0..MaxLatency
\* The values configuration updates set: delays up to the default delay,
\* attempt counts up to the default count.
DelayValues == 1..DEFAULT_HEDGING_DELAY
CountValues == 1..DEFAULT_MAX_HEDGED_REQUEST_COUNT

\* HedgedRequestOperation: the kinds whose races the model runs.
Operations == {"OPEN_FILE"}
\* HedgedRequestOperation: the kinds whose delays the model configures.
HedgedRequestOperation == {"OPEN_FILE", "FILE_EXISTS"}
\* An operation identifier past the last kind.
OperationIds == HedgedRequestOperation \cup {"COUNT"}

\* The values the host hands to a delay setting callback, as unsigned
\* integers of Width bits: 1 and the smallest value above the signed range.
HostValues == {1, 2^(Width - 1)}
\* The values the host hands to the callback of the maximum attempt count.
HostCounts == {0, 2}
\* The write and mutate operations of HedgedFileSystem.
WriteOps ==
    {"Write", "Truncate", "Trim", "CreateDirectory", "RemoveDirectory",
     "MoveFile", "RemoveFile", "TryRemoveFile", "FileSync"}

\* The threads that call SetConfig: the settings callback and a client of
\* the registry entry.
Threads == {"settings", "client"}

VARIABLES
    config,     \* HedgedRequestFsEntry::config
    pending,    \* HedgedRequestFsEntry::pending_requests
    lock,       \* HedgedRequestFsEntry::cache_mutex: "free" or "waitall"
    drainer,    \* the thread that calls WaitAll: "idle", "waiting", or "threw"
    pc,         \* per caller: where it stands in the hedged operation
    tok,        \* per caller: Token::completed of its current race
    sched,      \* per caller: locals of the hedged operation
    att,        \* per caller: the attempts issued by its race, in issue order
    host,       \* the threads that read and update the configuration
    wr,         \* the write and mutate operations of the hedged file system
    rd,         \* HedgedFileHandle::HedgedRead: its locals and its two tasks
    ls,         \* HedgedFileSystem::ListFiles: its locals and its attempts
    hd,         \* a hedged operation on a file handle: the handle, its attempts
    vfs         \* the sub file systems registered in the virtual file system

\* The state of the operations outside HedgedFileSystem::OpenFile.
ioVars == <<wr, rd, ls, hd, vfs>>

\* The state of the threads outside the hedge scheduler.
otherVars == <<host, ioVars>>

vars == <<config, pending, lock, drainer, pc, tok, sched, att, otherVars>>

\* The caller threads that run hedged operations: the threads the state
\* holds locals for.
Callers == DOMAIN pc

\* ------------------------------------------------------------ data model
\* HedgedRequestConfig(): the defaults.
DefaultConfig ==
    [delays_ms |-> [o \in HedgedRequestOperation |-> DEFAULT_HEDGING_DELAY],
     max_hedged_request_count |-> DEFAULT_MAX_HEDGED_REQUEST_COUNT]

\* CreateFuture: a FutureWrapper whose worker has just been started; the
\* wrapped operation takes l ticks (MockFileSystem::SimulateDelay).
\*   st     "run" the functor runs, "ready" state->ready is set and the token
\*          is not yet signalled, "exit" the thread function has returned,
\*          "moved" the handle was moved into the registry
\*   exc    state->exception is set
\*   res    state->result: "none" not assigned, "set" assigned by the worker,
\*          "taken" moved out by Get
\*   old    the attempt finished in an earlier tick
\*   own    who holds the handle: "sched", "registry", "destroyed"
\*   joined worker.join() has returned for it
CreateFuture(l) ==
    [st |-> "run", rem |-> l, exc |-> FALSE, res |-> "none", old |-> FALSE,
     own |-> "sched", joined |-> FALSE]

\* A handle that was moved into the registry: it holds no state and no
\* worker any more.
MovedFrom ==
    [st |-> "moved", rem |-> 0, exc |-> FALSE, res |-> "none", old |-> FALSE,
     own |-> "registry", joined |-> FALSE]

\* An IsReady that does not count a failed attempt as finished.
IsReadySucceeded(a) == a.st \in {"ready", "exit"} /\ ~a.exc

\* An IsReady that is true only until the worker has signalled the token.
IsReadyUnsignalled(a) == a.st = "ready"

\* FutureWrapper::IsReady
IsReady(a) == a.st \in {"ready", "exit"}

\* A join that returns at once.
JoinReturnsAtOnce(a) == TRUE

\* worker.join() returns only once the thread function has returned.
JoinReturns(a) == a.st = "exit"

\* The locals of a caller that runs no race.
NoRace ==
    [op |-> "OPEN_FILE", delta |-> 0, n |-> 0, waitRem |-> 0,
     ready |-> <<>>, unready |-> <<>>, k |-> 0,
     fast |-> FALSE, lat |-> 0, fixed |-> TRUE, win |-> 0, ret |-> "none",
     erased |-> FALSE]

\* A Wait that rethrows the stored exception as Get does.
WaitRaisesStored(a) == a.exc

\* FutureWrapper::Wait joins the worker and does not look at the outcome
\* the worker stored: it raises nothing.
WaitRaises(a) == FALSE

\* A Get that swallows the stored exception.
RethrowsNever(a) == FALSE

\* FutureWrapper::Get rethrows the exception the worker stored.
Rethrows(a) == a.exc

\* A GetConfig that returns a default-constructed configuration.
GetConfigStale == DefaultConfig

\* HedgedRequestFsEntry::GetConfig
GetConfig == config

\* A cleanup that erases nothing.
CleanupNone(p) == p

\* A cleanup that erases the waiters whose losers still run.
CleanupRunning(p) == SelectSeq(p, LAMBDA e : e.wdone)

\* HedgedRequestFsEntry::CleanupCompleted: erase the waiters that are ready.
CleanupCompleted(p) == SelectSeq(p, LAMBDA e : ~e.wdone)

\* The delay threshold and the maximum attempt count a race of operation o
\* runs with: the configuration as it is when the race starts.
RaceConfig(o) ==
    [delta |-> GetConfig.delays_ms[o], n |-> GetConfig.max_hedged_request_count]

\* The conversion of a uint64_t argument to the int64_t parameter value_ms.
ToSigned(u) == IF u >= 2^(Width - 1) THEN u - 2^Width ELSE u

\* The values a BIGINT setting hands to its callback.
SignedValues == {ToSigned(u) : u \in HostValues}

\* The configurations a client of the entry passes to SetConfig.
ClientConfigs ==
    {[DefaultConfig EXCEPT !.delays_ms[o] = 0 - 1] : o \in HedgedRequestOperation}
        \cup {[DefaultConfig EXCEPT !.max_hedged_request_count = 0]}

\* The threads that read and update the configuration, before any call.
\*   pc        per thread: "idle", "set" about to call SetConfig, "copy"
\*             inside SetConfig with the delays assigned
\*   arg       per thread: the configuration it passes to SetConfig
\*   field     per thread: the kind whose delay its update sets
\*   last      how the last finished update ended: "ok" or "error"
\*   committed the configuration after the updates finished so far
\*   want      what the updates finished so far have asked for: each has put
\*             in the value of the field it sets, in the order they returned
\*   got       the configuration the reader's GetConfig returned, if any
\*   gotAt     the committed configuration when that GetConfig ran
HostInit ==
    [pc |-> [t \in Threads |-> "idle"],
     arg |-> [t \in Threads |-> DefaultConfig],
     field |-> [t \in Threads |-> "none"],
     last |-> "none",
     committed |-> DefaultConfig,
     want |-> DefaultConfig,
     got |-> <<>>,
     gotAt |-> <<>>]

\* No write or mutate operation has been called.
\*   op       the operation the caller is in, or "none"
\*   lat      the ticks the wrapped operation of the last call takes
\*   rem      the ticks the wrapped operation still takes
\*   calls    the calls of write and mutate operations made so far
\*   invoked  the invocations of wrapped operations made so far
\*   async    the asynchronous attempts those calls have issued
WriteInit ==
    [op |-> "none", lat |-> 0, rem |-> 0, calls |-> 0, invoked |-> 0,
     async |-> 0]

\* HedgedRead has not been called.
\*   pc      "idle", "wait" in the first wait_for, "pollPrimary" and
\*           "pollHedged" in the loop, "returned"
\*   timer   the ticks left of the first wait_for
\*   prim    the primary task: "none", "run", "done" with the bytes read,
\*           "failed" with an exception; prem its ticks left
\*   hedge   the hedged task, likewise; hrem its ticks left
\*   buffer  whose bytes the caller's buffer holds
\*   wrote   the tasks that have written into the caller's buffer
\*   winner  the task whose result HedgedRead returned
\*   ret     how HedgedRead returned: "val" or "exc"
\*   wild    the hedged task has written through the dangling reference to
\*           memory that is not the caller's buffer
\*   pos     the position of the wrapped handle, in reads of nr_bytes
\*   start   current_position of the call: SeekPosition(*wrapped_handle)
\*   next    where the last call that returned bytes has left the stream:
\*           its start plus what it returned; -1 after a call that threw
\*   due     next, as it was when the call started
\*   calls   the calls of HedgedRead made so far
\*   stale   the primary tasks of earlier calls that still run their Read
\*           on the wrapped handle: the ticks each has left
\*   closed  Close has been called
\* and pc is "closing" while Close holds handle_mutex.
ReadInit ==
    [pc |-> "idle", timer |-> 0, prim |-> "none", prem |-> 0,
     hedge |-> "none", hrem |-> 0, buffer |-> "none", wrote |-> {},
     winner |-> "none", ret |-> "none", wild |-> FALSE,
     pos |-> 0, start |-> 0, next |-> 0, due |-> 0, calls |-> 0,
     stale |-> <<>>, closed |-> FALSE]

\* No attempt of ListFiles.
NoListing == [st |-> "none", rem |-> 0, n |-> 0]

\* ListFiles has not been called.
\*   pc        "idle", "wait" in the bounded wait, "waitany" in WaitForAny,
\*             "deliver" in the loop over results, "returned"
\*   timer     the ticks left of the bounded wait
\*   a         the attempts: st "none", "delay" before the listing starts,
\*             "list" while entries are appended, "done"; rem the ticks
\*             left of the delay; n the entries appended so far
\*   results   the shared vector: who appended which entry
\*   winner    the attempt whose result HedgedRequest returned
\*   last, idx the end of the loop over results and its position
\*   delivered the entries the caller's callback has received
\*   torn      results was appended to while the loop read it
ListInit ==
    [pc |-> "idle", timer |-> 0, a |-> <<NoListing, NoListing>>,
     results |-> <<>>, winner |-> 0, last |-> 0, idx |-> 0,
     delivered |-> <<>>, torn |-> FALSE]

\* A file handle that is open and no hedged operation on it.
HandleInit ==
    [pc |-> "idle", op |-> "none", timer |-> 0, alive |-> TRUE,
     a |-> [i \in 1..2 |-> [st |-> "none", rem |-> 0]],
     winner |-> 0, used |-> {}]

\* The virtual file system after the extension is loaded: MockFileSystem is
\* registered, the object cache of the database holds no registry entry.
VfsInit ==
    [subs |-> <<[kind |-> "plain", name |-> "MockFileSystem"]>>,
     cache |-> 0, made |-> 0, op |-> "none", arg |-> <<>>, err |-> FALSE]

\* ------------------------------------------------------------------ Init
\* The state after construction, with the threads cs as the callers of the
\* hedged operations: the registry is empty, the configuration holds the
\* defaults, and no caller is inside a race.
InitWith(cs) ==
    /\ config = DefaultConfig
    /\ pending = <<>>
    /\ lock = "free"
    /\ drainer = "idle"
    /\ pc = [c \in cs |-> "idle"]
    /\ tok = [c \in cs |-> FALSE]
    /\ sched = [c \in cs |-> NoRace]
    /\ att = [c \in cs |-> <<>>]
    /\ host = HostInit
    /\ wr = WriteInit
    /\ rd = ReadInit
    /\ ls = ListInit
    /\ hd = HandleInit
    /\ vfs = VfsInit

\* One thread calls the hedged operations.
Init == InitWith(OneCaller)

\* Two threads call the hedged operations.
PairInit == InitWith(TwoCallers)

\* ------------------------------------------------------- configuration
\* HedgedRequestFsEntry::UpdateConfig(operation, delay_ms)
UpdateConfig(o, d) ==
    /\ lock = "free"
    /\ config.delays_ms[o] # d
    /\ config' = [config EXCEPT !.delays_ms[o] = d]
    /\ UNCHANGED <<pending, lock, drainer, pc, tok, sched, att>>
    /\ UNCHANGED otherVars

\* HedgedRequestFsEntry::UpdateMaxHedgedRequestCount(n)
UpdateMaxHedgedRequestCount(n) ==
    /\ lock = "free"
    /\ config.max_hedged_request_count # n
    /\ config' = [config EXCEPT !.max_hedged_request_count = n]
    /\ UNCHANGED <<pending, lock, drainer, pc, tok, sched, att>>
    /\ UNCHANGED otherVars

\* ------------------------------------------------------------ scheduler
\* A bounded wait armed with the delay configured now, not the race's own.
TimeoutLive(c) == config.delays_ms[sched[c].op]

\* HedgedRequest(fn, timeout, entry): the delay threshold of the race, passed
\* by value when the race starts and used for each of its bounded waits.
Timeout(c) == sched[c].delta

\* An escalation test that reads the live configuration, not the snapshot.
MayEscalateLive(c) == Len(att[c]) < config.max_hedged_request_count

\* The race may issue one more attempt.
MayEscalate(c) == Len(att[c]) < sched[c].n

\* A fast-path test that does not look at the number of attempts in flight.
FastPathAnyCount(c) == IsReady(att[c][1])

\* The fast path: the primary, alone in flight, is ready after the wait.
FastPath(c) == Len(att[c]) = 1 /\ IsReady(att[c][1])

\* Some issued attempt of the race is ready.
AnyReady(c) == \E i \in 1..Len(att[c]) : IsReady(att[c][i])

\* The caller enters the hedged operation: it reads the configuration
\* (GetConfig takes cache_mutex), makes the token and issues the primary
\* attempt.  The race starts only when its losers still fit the store.
StartRace(c, o, l) ==
    /\ pc[c] = "idle"
    /\ lock = "free"
    /\ Len(pending) + RaceConfig(o).n - 1 <= MaxPending
    /\ sched' = [sched EXCEPT ![c] =
           [NoRace EXCEPT !.op = o,
                          !.delta = RaceConfig(o).delta,
                          !.n = RaceConfig(o).n,
                          !.waitRem = RaceConfig(o).delta,
                          !.lat = l]]
    /\ att' = [att EXCEPT ![c] = <<CreateFuture(l)>>]
    /\ tok' = [tok EXCEPT ![c] = FALSE]
    /\ pc' = [pc EXCEPT ![c] = "wait"]
    /\ UNCHANGED <<config, pending, lock, drainer>>
    /\ UNCHANGED otherVars

\* A bounded wait whose timer never expires.
BoundedWaitNoTimer(c) == pc[c] = "wait" /\ tok[c]

\* A bounded wait that returns without waiting.
BoundedWaitAtOnce(c) == pc[c] = "wait"

\* token->cv.wait_for(lock, timeout, completed) returns; completed = false.
BoundedWaitDone(c) == pc[c] = "wait" /\ (tok[c] \/ sched[c].waitRem = 0)

BoundedWaitReturn(c) ==
    /\ BoundedWaitDone(c)
    /\ tok' = [tok EXCEPT ![c] = FALSE]
    /\ pc' = [pc EXCEPT ![c] = "check"]
    /\ UNCHANGED <<config, pending, lock, drainer, sched, att>>
    /\ UNCHANGED otherVars

\* After the bounded wait: return the primary, or go on to pick a winner,
\* or issue the next hedge, or wait without deadline.
Check(c) ==
    /\ pc[c] = "check"
    /\ IF FastPath(c)
       THEN /\ pc' = [pc EXCEPT ![c] = "fastget"]
            /\ sched' = [sched EXCEPT ![c].fast = TRUE]
            /\ UNCHANGED att
       ELSE IF Len(att[c]) > 1 /\ AnyReady(c)
       THEN /\ pc' = [pc EXCEPT ![c] = "scan"]
            /\ sched' = [sched EXCEPT ![c].k = 1]
            /\ UNCHANGED att
       ELSE IF MayEscalate(c)
       THEN \E l \in Latencies :
            /\ att' = [att EXCEPT ![c] = Append(@, CreateFuture(l))]
            /\ sched' = [sched EXCEPT ![c].fixed = @ /\ (l = sched[c].lat),
                                      ![c].waitRem = Timeout(c)]
            /\ pc' = [pc EXCEPT ![c] =
                        IF Len(att[c]) + 1 < sched[c].n THEN "wait" ELSE "waitany"]
       ELSE /\ pc' = [pc EXCEPT ![c] = "waitany"]
            /\ UNCHANGED <<sched, att>>
    /\ UNCHANGED <<config, pending, lock, drainer, tok>>
    /\ UNCHANGED otherVars

\* A wait without deadline that can return before the token is set.
WaitAnyNoPredicate(c) == pc[c] = "waitany"

\* WaitForAny: token->cv.wait(lock, completed) returns.
WaitAnyDone(c) == pc[c] = "waitany" /\ tok[c]

WaitAnyReturn(c) ==
    /\ WaitAnyDone(c)
    /\ pc' = [pc EXCEPT ![c] = "scan"]
    /\ sched' = [sched EXCEPT ![c].k = 1]
    /\ UNCHANGED <<config, pending, lock, drainer, tok, att>>
    /\ UNCHANGED otherVars

\* A partition loop that puts each ready future in front of the others.
ScanReversed(c) ==
    /\ pc[c] = "scan"
    /\ LET k == sched[c].k
       IN /\ sched' = [sched EXCEPT
                 ![c].ready = IF IsReady(att[c][k]) THEN <<k>> \o @ ELSE @,
                 ![c].unready = IF IsReady(att[c][k]) THEN @ ELSE Append(@, k),
                 ![c].k = k + 1]
          /\ pc' = [pc EXCEPT ![c] = IF k = Len(att[c]) THEN "get" ELSE "scan"]
    /\ UNCHANGED <<config, pending, lock, drainer, tok, att>>
    /\ UNCHANGED otherVars

\* A partition loop that also keeps each ready future among the pending.
ScanBoth(c) ==
    /\ pc[c] = "scan"
    /\ LET k == sched[c].k
       IN /\ sched' = [sched EXCEPT
                 ![c].ready = IF IsReady(att[c][k]) THEN Append(@, k) ELSE @,
                 ![c].unready = Append(@, k),
                 ![c].k = k + 1]
          /\ pc' = [pc EXCEPT ![c] = IF k = Len(att[c]) THEN "get" ELSE "scan"]
    /\ UNCHANGED <<config, pending, lock, drainer, tok, att>>
    /\ UNCHANGED otherVars

\* WaitForAny: one turn of the partition loop.
Scan(c) ==
    /\ pc[c] = "scan"
    /\ LET k == sched[c].k
       IN /\ sched' = [sched EXCEPT
                 ![c].ready = IF IsReady(att[c][k]) THEN Append(@, k) ELSE @,
                 ![c].unready = IF IsReady(att[c][k]) THEN @ ELSE Append(@, k),
                 ![c].k = k + 1]
          /\ pc' = [pc EXCEPT ![c] = IF k = Len(att[c]) THEN "get" ELSE "scan"]
    /\ UNCHANGED <<config, pending, lock, drainer, tok, att>>
    /\ UNCHANGED otherVars

\* futs[0].Get(): join the winner's worker, rethrow its exception.
GetDone(c) ==
    /\ pc[c] = "get"
    /\ sched[c].ready # <<>> => JoinReturns(att[c][Head(sched[c].ready)])

Get(c) ==
    /\ GetDone(c)
    /\ IF sched[c].ready = <<>>
       THEN /\ pc' = [pc EXCEPT ![c] = "undefined"]
            /\ UNCHANGED <<sched, att>>
       ELSE LET w == Head(sched[c].ready)
            IN /\ att' = [att EXCEPT
                             ![c][w].joined = TRUE,
                             ![c][w].res = IF Rethrows(att[c][w]) THEN @ ELSE "taken"]
               /\ sched' = [sched EXCEPT ![c].win = w, ![c].k = 1]
               /\ pc' = [pc EXCEPT ![c] =
                           IF Rethrows(att[c][w]) THEN "unwind"
                           ELSE IF sched[c].unready = <<>> THEN "ret"
                           ELSE "handoff"]
    /\ UNCHANGED <<config, pending, lock, drainer, tok>>
    /\ UNCHANGED otherVars

\* entry->AddPendingRequest for one unready future: a waiter thread is
\* started on it, the waiter is queued and the finished waiters are erased.
\* The waiter of a loser that has finished by now may be ready before the
\* cleanup looks at it.  A queued waiter:
\*   st, rem  the loser's worker: "run" with rem ticks left, or "exit"
\*   exc      the loser's state->exception was set when it was handed over
\*   wdone    the waiter's state->ready is set
\*   wexc     the waiter's state->exception is set: pending_fut->Wait() threw
HandoffDone(c) == pc[c] = "handoff" /\ lock = "free"

\* A hand-over that gives the registry a copy and leaves the handle with
\* the race.
HandoffCopy(c) ==
    /\ HandoffDone(c)
    /\ LET k == sched[c].k
           i == sched[c].unready[k]
           a == att[c][i]
       IN \E w \in (IF a.st = "run" THEN {FALSE} ELSE BOOLEAN) :
          /\ pending' = CleanupCompleted(
                 Append(pending,
                        [st |-> IF a.st = "run" THEN "run" ELSE "exit",
                         rem |-> a.rem,
                         exc |-> ~w /\ a.exc,
                         wdone |-> w,
                         wexc |-> w /\ WaitRaises(a)]))
          /\ sched' = [sched EXCEPT
                 ![c].k = k + 1,
                 ![c].erased = @ \/ \E j \in 1..Len(pending) : pending[j].wdone]
          /\ pc' = [pc EXCEPT ![c] =
                      IF k = Len(sched[c].unready) THEN "ret" ELSE "handoff"]
    /\ UNCHANGED <<config, lock, drainer, tok, att>>
    /\ UNCHANGED otherVars

HandoffAdd(c) ==
    /\ HandoffDone(c)
    /\ LET k == sched[c].k
           i == sched[c].unready[k]
           a == att[c][i]
       IN \E w \in (IF a.st = "run" THEN {FALSE} ELSE BOOLEAN) :
          /\ pending' = CleanupCompleted(
                 Append(pending,
                        [st |-> IF a.st = "run" THEN "run" ELSE "exit",
                         rem |-> a.rem,
                         exc |-> ~w /\ a.exc,
                         wdone |-> w,
                         wexc |-> w /\ WaitRaises(a)]))
          /\ att' = [att EXCEPT ![c][i] = MovedFrom]
          /\ sched' = [sched EXCEPT
                 ![c].k = k + 1,
                 ![c].erased = @ \/ \E j \in 1..Len(pending) : pending[j].wdone]
          /\ pc' = [pc EXCEPT ![c] =
                      IF k = Len(sched[c].unready) THEN "ret" ELSE "handoff"]
    /\ UNCHANGED <<config, lock, drainer, tok>>
    /\ UNCHANGED otherVars

\* The operation returns the winner's value; the ready futures left in
\* futs are destroyed, which joins their workers.
ReturnDone(c) ==
    /\ pc[c] = "ret"
    /\ \A j \in 1..Len(sched[c].ready) : JoinReturns(att[c][sched[c].ready[j]])

Return(c) ==
    /\ ReturnDone(c)
    /\ att' = [att EXCEPT ![c] =
           [i \in 1..Len(att[c]) |->
               IF att[c][i].own = "sched"
               THEN [att[c][i] EXCEPT !.own = "destroyed", !.joined = TRUE]
               ELSE att[c][i]]]
    /\ sched' = [sched EXCEPT ![c].ret = "val"]
    /\ pc' = [pc EXCEPT ![c] = "done"]
    /\ UNCHANGED <<config, pending, lock, drainer, tok>>
    /\ UNCHANGED otherVars

\* The winner's Get() threw: the stack is unwound, which destroys unready
\* and futs and so joins the worker of every attempt of the race.
UnwindDone(c) ==
    /\ pc[c] = "unwind"
    /\ \A i \in 1..Len(att[c]) : JoinReturns(att[c][i])

Unwind(c) ==
    /\ UnwindDone(c)
    /\ att' = [att EXCEPT ![c] =
           [i \in 1..Len(att[c]) |->
               [att[c][i] EXCEPT !.own = "destroyed", !.joined = TRUE]]]
    /\ sched' = [sched EXCEPT ![c].ret = "exc"]
    /\ pc' = [pc EXCEPT ![c] = "done"]
    /\ UNCHANGED <<config, pending, lock, drainer, tok>>
    /\ UNCHANGED otherVars

\* The fast path: primary.Get() joins the primary's worker and returns its
\* value or rethrows its exception.
FastGetDone(c) == pc[c] = "fastget" /\ JoinReturns(att[c][1])

FastGet(c) ==
    /\ FastGetDone(c)
    /\ att' = [att EXCEPT
                  ![c][1].joined = TRUE, ![c][1].own = "destroyed",
                  ![c][1].res = IF Rethrows(att[c][1]) THEN @ ELSE "taken"]
    /\ sched' = [sched EXCEPT ![c].win = 1,
                              ![c].ret = IF Rethrows(att[c][1]) THEN "exc" ELSE "val"]
    /\ pc' = [pc EXCEPT ![c] = "done"]
    /\ UNCHANGED <<config, pending, lock, drainer, tok>>
    /\ UNCHANGED otherVars

\* The caller has the outcome and leaves the hedged operation.
Leave(c) ==
    /\ pc[c] = "done"
    /\ pc' = [pc EXCEPT ![c] = "idle"]
    /\ sched' = [sched EXCEPT ![c] = NoRace]
    /\ att' = [att EXCEPT ![c] = <<>>]
    /\ tok' = [tok EXCEPT ![c] = FALSE]
    /\ UNCHANGED <<config, pending, lock, drainer>>
    /\ UNCHANGED otherVars

\* -------------------------------------------------------------- workers
\* A worker that stores a result next to the exception it caught.
WorkerFinishBoth(c, i) ==
    /\ att[c][i].st = "run"
    /\ att[c][i].rem = 0
    /\ \E e \in BOOLEAN :
           att' = [att EXCEPT ![c][i].st = "ready", ![c][i].exc = e,
                              ![c][i].res = "set"]
    /\ UNCHANGED <<config, pending, lock, drainer, pc, tok, sched>>
    /\ UNCHANGED otherVars

\* The worker of CreateFuture: the functor returns or throws; the outcome
\* is stored and state->ready is set.
WorkerFinishDue(c, i) == att[c][i].st = "run" /\ att[c][i].rem = 0

WorkerFinish(c, i) ==
    /\ WorkerFinishDue(c, i)
    /\ \E e \in BOOLEAN :
           att' = [att EXCEPT ![c][i].st = "ready", ![c][i].exc = e,
                              ![c][i].res = IF e THEN "none" ELSE "set"]
    /\ UNCHANGED <<config, pending, lock, drainer, pc, tok, sched>>
    /\ UNCHANGED otherVars

\* A worker that signals the token before it stores its outcome.
WorkerSignalFirst(c, i) ==
    /\ \/ att[c][i].st = "ready"
       \/ att[c][i].st = "run" /\ att[c][i].rem = 0 /\ ~tok[c]
    /\ tok' = [tok EXCEPT ![c] = TRUE]
    /\ att' = [att EXCEPT ![c][i].st = IF @ = "ready" THEN "exit" ELSE @]
    /\ UNCHANGED <<config, pending, lock, drainer, pc, sched>>
    /\ UNCHANGED otherVars

\* A worker whose signal flips Token::completed.
WorkerSignalFlip(c, i) ==
    /\ att[c][i].st = "ready"
    /\ tok' = [tok EXCEPT ![c] = ~@]
    /\ att' = [att EXCEPT ![c][i].st = "exit"]
    /\ UNCHANGED <<config, pending, lock, drainer, pc, sched>>
    /\ UNCHANGED otherVars

\* A worker that signals one token shared by all races.
WorkerSignalAll(c, i) ==
    /\ att[c][i].st = "ready"
    /\ tok' = [d \in Callers |-> TRUE]
    /\ att' = [att EXCEPT ![c][i].st = "exit"]
    /\ UNCHANGED <<config, pending, lock, drainer, pc, sched>>
    /\ UNCHANGED otherVars

\* The worker signals the token and its thread function returns.
WorkerSignal(c, i) ==
    /\ att[c][i].st = "ready"
    /\ tok' = [tok EXCEPT ![c] = TRUE]
    /\ att' = [att EXCEPT ![c][i].st = "exit"]
    /\ UNCHANGED <<config, pending, lock, drainer, pc, sched>>
    /\ UNCHANGED otherVars

\* The worker of a loser the registry holds runs to its end; nobody waits
\* on its token any more.  The outcome it stores is looked at by the
\* waiter's Wait at the earliest, where it is drawn.
LoserFinishDue(j) == pending[j].st = "run" /\ pending[j].rem = 0

LoserFinish(j) ==
    /\ LoserFinishDue(j)
    /\ pending' = [pending EXCEPT ![j].st = "exit"]
    /\ UNCHANGED <<config, lock, drainer, pc, tok, sched, att>>
    /\ UNCHANGED otherVars

\* A waiter that takes cache_mutex before it ends.
WaiterNeedsMutex(j) ==
    pending[j].st = "exit" /\ ~pending[j].wdone /\ lock = "free"

\* The waiter thread of AddPendingRequest: pending_fut->Wait() joins the
\* loser's worker; the waiter is ready then, and the loser's handle and the
\* outcome it stored are destroyed with the waiter's functor.
WaiterJoinDue(j) == pending[j].st = "exit" /\ ~pending[j].wdone

WaiterJoin(j) ==
    /\ WaiterJoinDue(j)
    /\ \E e \in (IF pending[j].exc THEN {TRUE} ELSE BOOLEAN) :
           pending' = [pending EXCEPT ![j].wdone = TRUE,
                                      ![j].wexc = WaitRaises([exc |-> e]),
                                      ![j].exc = FALSE]
    /\ UNCHANGED <<config, lock, drainer, pc, tok, sched, att>>
    /\ UNCHANGED otherVars

\* ------------------------------------------------------------- registry
\* HedgedRequestFsEntry::WaitAll takes cache_mutex ...
WaitAllBegin ==
    /\ drainer = "idle"
    /\ lock = "free"
    /\ lock' = "waitall"
    /\ drainer' = "waiting"
    /\ UNCHANGED <<config, pending, pc, tok, sched, att>>
    /\ UNCHANGED otherVars

\* A WaitAll that does not wait for the queued futures.
WaitAllDoneNoWait == drainer = "waiting"

\* ... waits for every queued future, clears the store and unlocks.  A
\* Wait that threw would leave WaitAll with the store as it is.
WaitAllDone ==
    /\ drainer = "waiting"
    /\ \A j \in 1..Len(pending) : pending[j].wdone

WaitAllEnd ==
    /\ WaitAllDone
    /\ IF \E j \in 1..Len(pending) : WaitRaises([exc |-> pending[j].wexc])
       THEN /\ drainer' = "threw"
            /\ UNCHANGED pending
       ELSE /\ drainer' = "idle"
            /\ pending' = <<>>
    /\ lock' = "free"
    /\ UNCHANGED <<config, pc, tok, sched, att>>
    /\ UNCHANGED otherVars

\* ----------------------------------------------------------------- time
\* Some thread can take a step that needs no time to pass.
Urgent ==
    \/ \E c \in Callers :
          \/ BoundedWaitDone(c)
          \/ pc[c] \in {"check", "scan", "done"}
          \/ WaitAnyDone(c)
          \/ GetDone(c)
          \/ HandoffDone(c)
          \/ ReturnDone(c)
          \/ UnwindDone(c)
          \/ FastGetDone(c)
          \/ \E i \in 1..Len(att[c]) :
                WorkerFinishDue(c, i) \/ att[c][i].st = "ready"
    \/ \E j \in 1..Len(pending) : LoserFinishDue(j) \/ WaiterJoinDue(j)
    \/ WaitAllDone

\* Some thread sleeps or waits on a timer.
Timed ==
    \/ \E c \in Callers :
          \/ pc[c] = "wait"
          \/ \E i \in 1..Len(att[c]) : att[c][i].st = "run"
    \/ \E j \in 1..Len(pending) : pending[j].st = "run"

\* One tick passes.
Tick ==
    /\ ~Urgent
    /\ Timed
    /\ att' = [c \in Callers |->
                 [i \in 1..Len(att[c]) |->
                     [att[c][i] EXCEPT
                         !.rem = IF att[c][i].st = "run" THEN @ - 1 ELSE @,
                         !.old = IsReady(att[c][i])]]]
    /\ sched' = [c \in Callers |->
                 [sched[c] EXCEPT
                     !.waitRem = IF pc[c] = "wait" THEN @ - 1 ELSE @]]
    /\ pending' = [j \in 1..Len(pending) |->
                     [pending[j] EXCEPT
                         !.rem = IF pending[j].st = "run" THEN @ - 1 ELSE @]]
    /\ UNCHANGED <<config, lock, drainer, pc, tok>>
    /\ UNCHANGED otherVars

\* ----------------------------------------------------------------- Next
Next ==
    \/ \E o \in Operations, d \in DelayValues : UpdateConfig(o, d)
    \/ \E n \in CountValues : UpdateMaxHedgedRequestCount(n)
    \/ \E c \in OneCaller, o \in Operations, l \in Latencies : StartRace(c, o, l)
    \/ \E c \in OneCaller : BoundedWaitReturn(c)
    \/ \E c \in OneCaller : Check(c)
    \/ \E c \in OneCaller : WaitAnyReturn(c)
    \/ \E c \in OneCaller : Scan(c)
    \/ \E c \in OneCaller : Get(c)
    \/ \E c \in OneCaller : HandoffAdd(c)
    \/ \E c \in OneCaller : Return(c)
    \/ \E c \in OneCaller : Unwind(c)
    \/ \E c \in OneCaller : FastGet(c)
    \/ \E c \in OneCaller : Leave(c)
    \/ \E c \in OneCaller : \E i \in 1..Len(att[c]) : WorkerFinish(c, i)
    \/ \E c \in OneCaller : \E i \in 1..Len(att[c]) : WorkerSignal(c, i)
    \/ \E j \in 1..Len(pending) : LoserFinish(j)
    \/ \E j \in 1..Len(pending) : WaiterJoin(j)
    \/ WaitAllBegin
    \/ WaitAllEnd
    \/ Tick

Spec == Init /\ [][Next]_vars

\* --------------------------------------------------- races between updates
\* No caller is inside a hedged operation.
Quiet == \A c \in Callers : pc[c] = "idle"

\* The races and the registry under a configuration that is updated only
\* while no race runs.
QuietNext ==
    \/ Quiet /\ \E o \in Operations, d \in DelayValues : UpdateConfig(o, d)
    \/ Quiet /\ \E n \in CountValues : UpdateMaxHedgedRequestCount(n)
    \/ \E c \in OneCaller, o \in Operations, l \in Latencies : StartRace(c, o, l)
    \/ \E c \in OneCaller : BoundedWaitReturn(c)
    \/ \E c \in OneCaller : Check(c)
    \/ \E c \in OneCaller : WaitAnyReturn(c)
    \/ \E c \in OneCaller : Scan(c)
    \/ \E c \in OneCaller : Get(c)
    \/ \E c \in OneCaller : HandoffAdd(c)
    \/ \E c \in OneCaller : Return(c)
    \/ \E c \in OneCaller : Unwind(c)
    \/ \E c \in OneCaller : FastGet(c)
    \/ \E c \in OneCaller : Leave(c)
    \/ \E c \in OneCaller : \E i \in 1..Len(att[c]) : WorkerFinish(c, i)
    \/ \E c \in OneCaller : \E i \in 1..Len(att[c]) : WorkerSignal(c, i)
    \/ \E j \in 1..Len(pending) : LoserFinish(j)
    \/ \E j \in 1..Len(pending) : WaiterJoin(j)
    \/ WaitAllBegin
    \/ WaitAllEnd
    \/ Tick

QuietSpec == Init /\ [][QuietNext]_vars

\* ------------------------------------------------------- fair scheduling
\* The steps the caller c takes by itself once it is inside the operation.
CallerStep(c) ==
    \/ BoundedWaitReturn(c)
    \/ Check(c)
    \/ WaitAnyReturn(c)
    \/ Scan(c)
    \/ Get(c)
    \/ Return(c)
    \/ Unwind(c)
    \/ FastGet(c)
    \/ Leave(c)

\* The steps of the worker and waiter threads.
ThreadStep ==
    \/ \E c \in OneCaller : \E i \in 1..Len(att[c]) : WorkerFinish(c, i)
    \/ \E c \in OneCaller : \E i \in 1..Len(att[c]) : WorkerSignal(c, i)
    \/ \E j \in 1..Len(pending) : LoserFinish(j)
    \/ \E j \in 1..Len(pending) : WaiterJoin(j)

\* Every thread that can run does run, time passes, and a thread that finds
\* cache_mutex free again and again gets it.
Fairness ==
    /\ SF_vars(Tick)
    /\ WF_vars(ThreadStep)
    /\ WF_vars(WaitAllEnd)
    /\ \A c \in OneCaller : WF_vars(CallerStep(c)) /\ SF_vars(HandoffAdd(c))

\* One caller, the worker and waiter threads and the thread that calls
\* WaitAll; the maximum attempt count is updated between races, the delays
\* are the defaults.
FairNext ==
    \/ Quiet /\ \E n \in CountValues : UpdateMaxHedgedRequestCount(n)
    \/ \E c \in OneCaller, o \in Operations, l \in Latencies : StartRace(c, o, l)
    \/ \E c \in OneCaller : CallerStep(c)
    \/ \E c \in OneCaller : HandoffAdd(c)
    \/ ThreadStep
    \/ WaitAllBegin
    \/ WaitAllEnd
    \/ Tick

FairSpec == Init /\ [][FairNext]_vars /\ Fairness

\* ------------------------------------------------------ concurrent races
\* Two callers race on the same file system and registry.  A race starts,
\* and the maximum attempt count is updated between races, while the
\* registry holds no loser; the delays are the defaults.
PairNext ==
    \/ /\ Quiet /\ pending = <<>>
       /\ \E n \in CountValues : UpdateMaxHedgedRequestCount(n)
    \/ /\ pending = <<>>
       /\ \E c \in Callers, o \in Operations, l \in Latencies : StartRace(c, o, l)
    \/ \E c \in Callers : BoundedWaitReturn(c)
    \/ \E c \in Callers : Check(c)
    \/ \E c \in Callers : WaitAnyReturn(c)
    \/ \E c \in Callers : Scan(c)
    \/ \E c \in Callers : Get(c)
    \/ \E c \in Callers : HandoffAdd(c)
    \/ \E c \in Callers : Return(c)
    \/ \E c \in Callers : Unwind(c)
    \/ \E c \in Callers : FastGet(c)
    \/ \E c \in Callers : Leave(c)
    \/ \E c \in Callers : \E i \in 1..Len(att[c]) : WorkerFinish(c, i)
    \/ \E c \in Callers : \E i \in 1..Len(att[c]) : WorkerSignal(c, i)
    \/ \E j \in 1..Len(pending) : LoserFinish(j)
    \/ \E j \in 1..Len(pending) : WaiterJoin(j)
    \/ Tick

PairSpec == PairInit /\ [][PairNext]_vars

\* ================================================= configuration surface
\* The frame of the configuration surface: the hedge scheduler stands still.
raceVars == <<pending, drainer, pc, tok, sched, att>>

\* A GetConfig that does not take cache_mutex.
GetConfigUnlocked == TRUE

\* HedgedRequestFsEntry::GetConfig takes cache_mutex before it copies.
GetConfigReady == lock = "free"

\* A delay check that lets every value through.
NegativeDelayNever(v) == FALSE

\* UpdateConfigDelay (field-pointer version): value_ms < 0 throws.
NegativeDelay(v) == v < 0

\* UpdateConfigDelay (field-pointer version) up to its call of SetConfig:
\* the check of value_ms, GetConfig, and the assignment of the field in the
\* local copy.
UpdateConfigDelayField(o, v) ==
    /\ host.pc["settings"] = "idle"
    /\ IF NegativeDelay(v)
       THEN host' = [host EXCEPT !.last = "error"]
       ELSE /\ GetConfigReady
            /\ host' = [host EXCEPT
                           !.pc["settings"] = "set",
                           !.arg["settings"] =
                               [GetConfig EXCEPT !.delays_ms[o] = v],
                           !.field["settings"] = o]
    /\ UNCHANGED <<config, lock, raceVars, ioVars>>

\* A client of the entry builds a configuration and is about to store it.
ClientSetConfig(cfg) ==
    /\ host.pc["client"] = "idle"
    /\ host' = [host EXCEPT !.pc["client"] = "set", !.arg["client"] = cfg]
    /\ UNCHANGED <<config, lock, raceVars, ioVars>>

\* HedgedRequestFsEntry::SetConfig: cache_mutex is taken and the member
\* delays_ms of config_p is assigned.
SetConfigBegin(t) ==
    /\ host.pc[t] = "set"
    /\ lock = "free"
    /\ lock' = "setconfig"
    /\ config' = [config EXCEPT !.delays_ms = host.arg[t].delays_ms]
    /\ host' = [host EXCEPT !.pc[t] = "copy"]
    /\ UNCHANGED <<raceVars, ioVars>>

\* HedgedRequestFsEntry::SetConfig: the member max_hedged_request_count is
\* assigned and cache_mutex is released.
SetConfigEnd(t) ==
    /\ host.pc[t] = "copy"
    /\ lock = "setconfig"
    /\ lock' = "free"
    /\ config' = [config EXCEPT !.max_hedged_request_count =
                                    host.arg[t].max_hedged_request_count]
    /\ host' = [host EXCEPT
                   !.pc[t] = "idle",
                   !.arg[t] = DefaultConfig,
                   !.field[t] = "none",
                   !.last = "ok",
                   !.committed = config',
                   !.want = IF host.field[t] = "none"
                            THEN host.arg[t]
                            ELSE [@ EXCEPT !.delays_ms[host.field[t]] =
                                     host.arg[t].delays_ms[host.field[t]]]]
    /\ UNCHANGED <<raceVars, ioVars>>

\* HedgedRequestFsEntry::UpdateConfig refuses a negative delay and an
\* operation identifier that names no kind.
UpdateConfigRejects(o, d) == d < 0 \/ o \notin HedgedRequestOperation

\* A call of HedgedRequestFsEntry::UpdateConfig(operation, delay_ms) with any
\* argument: refused with an error, or the delay of the kind is stored.
UpdateConfigCall(o, d) ==
    /\ lock = "free"
    /\ IF UpdateConfigRejects(o, d)
       THEN /\ config' = config
            /\ host' = [host EXCEPT !.last = "error"]
       ELSE /\ config' = [config EXCEPT !.delays_ms[o] = d]
            /\ host' = [host EXCEPT !.last = "ok", !.committed = config',
                                    !.want.delays_ms[o] = d]
    /\ UNCHANGED <<lock, raceVars, ioVars>>

\* UpdateConfigDelay (operation version), called by a Set...HedgingDelay
\* callback with the uint64_t value of the setting: the value becomes the
\* int64_t value_ms and goes to UpdateConfig.
UpdateConfigDelay(o, u) == UpdateConfigCall(o, ToSigned(u))

\* SetMaxHedgedRequestCount: the uint64_t value of the setting goes through
\* NumericCast<size_t>, which keeps every value, to
\* UpdateMaxHedgedRequestCount.
SetMaxHedgedRequestCount(u) ==
    /\ lock = "free"
    /\ config' = [config EXCEPT !.max_hedged_request_count = u]
    /\ host' = [host EXCEPT !.last = "ok", !.committed = config',
                            !.want.max_hedged_request_count = u]
    /\ UNCHANGED <<lock, raceVars, ioVars>>

\* A reader calls GetConfig.
ReadConfig ==
    /\ host.got = <<>>
    /\ GetConfigReady
    /\ host' = [host EXCEPT !.got = <<GetConfig>>, !.gotAt = <<host.committed>>]
    /\ UNCHANGED <<config, lock, raceVars, ioVars>>

\* The reader drops the copy it got.
ReadReturn ==
    /\ host.got # <<>>
    /\ host' = [host EXCEPT !.got = <<>>, !.gotAt = <<>>]
    /\ UNCHANGED <<config, lock, raceVars, ioVars>>

ConfigNext ==
    \/ \E o \in HedgedRequestOperation, v \in SignedValues :
          UpdateConfigDelayField(o, v)
    \/ \E cfg \in ClientConfigs : ClientSetConfig(cfg)
    \/ \E t \in Threads : SetConfigBegin(t)
    \/ \E t \in Threads : SetConfigEnd(t)
    \/ \E o \in HedgedRequestOperation, u \in HostValues : UpdateConfigDelay(o, u)
    \/ \E o \in OperationIds, d \in SignedValues : UpdateConfigCall(o, d)
    \/ \E u \in HostCounts : SetMaxHedgedRequestCount(u)
    \/ ReadConfig
    \/ ReadReturn

ConfigSpec == Init /\ [][ConfigNext]_vars

\* ============================================ write and mutate operations
\* A write operation that is raced like a read: a second invocation is
\* issued when the wrapped operation outlasts the delay, and the loser goes
\* to the registry.
HedgedWriteCall(c, k, l) ==
    /\ pc[c] = "idle"
    /\ wr.op = "none"
    /\ wr.calls < MaxWrites
    /\ LET hedge == l > GetConfig.delays_ms["OPEN_FILE"] IN
       /\ wr' = [wr EXCEPT !.op = k, !.lat = l, !.rem = l, !.calls = @ + 1,
                           !.invoked = @ + (IF hedge THEN 2 ELSE 1),
                           !.async = @ + (IF hedge THEN 2 ELSE 1)]
       /\ pending' = IF hedge /\ Len(pending) < MaxPending
                     THEN Append(pending,
                                 [st |-> "run", rem |-> l, exc |-> FALSE,
                                  wdone |-> FALSE, wexc |-> FALSE])
                     ELSE pending
    /\ UNCHANGED <<config, lock, drainer, pc, tok, sched, att, host, rd, ls, hd, vfs>>

\* HedgedFileSystem::Write, Truncate, Trim, CreateDirectory, RemoveDirectory,
\* MoveFile, RemoveFile, TryRemoveFile, FileSync: the caller's thread calls
\* the operation of the wrapped file system, which takes l ticks.
WriteCall(c, k, l) ==
    /\ pc[c] = "idle"
    /\ wr.op = "none"
    /\ wr.calls < MaxWrites
    /\ wr' = [wr EXCEPT !.op = k, !.lat = l, !.rem = l, !.calls = @ + 1,
                        !.invoked = @ + 1]
    /\ UNCHANGED <<config, lock, raceVars, host, rd, ls, hd, vfs>>

\* A tick passes inside the wrapped operation.
WriteTick ==
    /\ wr.op # "none"
    /\ wr.rem > 0
    /\ wr' = [wr EXCEPT !.rem = @ - 1]
    /\ UNCHANGED <<config, lock, raceVars, host, rd, ls, hd, vfs>>

\* The wrapped operation returns, and with it the operation of the hedged
\* file system.
WriteReturn ==
    /\ wr.op # "none"
    /\ wr.rem = 0
    /\ wr' = [wr EXCEPT !.op = "none"]
    /\ UNCHANGED <<config, lock, raceVars, host, rd, ls, hd, vfs>>

WriteNext ==
    \/ \E c \in OneCaller, k \in WriteOps, l \in Latencies : WriteCall(c, k, l)
    \/ WriteTick
    \/ WriteReturn

WriteSpec == Init /\ [][WriteNext]_vars

\* ============================================================ hedged read
\* The frame of HedgedRead.
notRead == <<config, lock, raceVars, host, wr, ls, hd, vfs>>

\* What a file handle keeps from one call of HedgedRead to the next: the
\* stream of the wrapped handle and the tasks that still use it.
ReadReset(r) ==
    [ReadInit EXCEPT !.pos = r.pos, !.next = r.next, !.calls = r.calls,
                     !.stale = r.stale, !.closed = r.closed]

\* Where a call that ends with the task t leaves the stream for its caller.
After(t) == IF t = "failed" THEN 0 - 1 ELSE rd.start + 1

\* HedgedFileHandle::HedgedRead up to the first wait_for: handle_mutex is
\* taken, the position of the wrapped handle is read and the primary task is
\* started; its Read takes lp ticks and reads into the caller's buffer.
ReadCall(lp) ==
    /\ rd.pc = "idle"
    /\ ~rd.closed
    /\ rd.calls < MaxReads
    /\ rd' = [ReadReset(rd) EXCEPT
                 !.pc = "wait", !.timer = DEFAULT_HEDGING_DELAY,
                 !.prim = "run", !.prem = lp,
                 !.start = rd.pos, !.due = rd.next, !.calls = @ + 1]
    /\ UNCHANGED notRead

\* A task of HedgedRead has ended, with bytes or with an exception.
Ended(t) == t \in {"done", "failed"}

\* HedgedRead hands on what the winning task ended with.
Outcome(t) == IF t = "failed" THEN "exc" ELSE "val"

\* The primary task: wrapped_fs->Read(*wrapped_handle, buffer, nr_bytes)
\* returns, and the bytes are in the caller's buffer, or it throws.
PrimaryFinish ==
    /\ rd.prim = "run"
    /\ rd.prem = 0
    /\ \/ rd' = [rd EXCEPT !.prim = "done", !.buffer = "primary",
                           !.wrote = @ \cup {"primary"}, !.pos = @ + 1]
       \/ rd' = [rd EXCEPT !.prim = "failed"]
    /\ UNCHANGED notRead

\* primary_task.wait_for(timeout) returns.  Ready: HedgedRead returns the
\* primary's result.  Timeout: the hedged task is started; its OpenFile,
\* Seek and Read take lh ticks.
FirstWaitDone == rd.pc = "wait" /\ (Ended(rd.prim) \/ rd.timer = 0)

FirstWaitReturn(lh) ==
    /\ FirstWaitDone
    /\ IF Ended(rd.prim)
       THEN rd' = [rd EXCEPT !.pc = "returned", !.winner = "primary",
                             !.ret = Outcome(rd.prim), !.next = After(rd.prim)]
       ELSE rd' = [rd EXCEPT !.pc = "pollPrimary", !.hedge = "run",
                             !.hrem = lh]
    /\ UNCHANGED notRead

\* The hedged task: OpenFile, Seek or Read throws, or the Read into
\* hedged_buffer returns and memcpy copies the bytes to buffer.  buffer is
\* captured by reference: once HedgedRead has returned the reference
\* dangles, and the copy goes to the caller's buffer or to other memory.
HedgedFinish ==
    /\ rd.hedge = "run"
    /\ rd.hrem = 0
    /\ \/ rd' = [rd EXCEPT !.hedge = "done", !.buffer = "hedged",
                           !.wrote = @ \cup {"hedged"}]
       \/ /\ rd.pc = "returned"
          /\ rd' = [rd EXCEPT !.hedge = "done", !.wild = TRUE]
       \/ rd' = [rd EXCEPT !.hedge = "failed"]
    /\ UNCHANGED notRead

\* The loop: primary_task.wait_for(10 ms).  Ready: the hedged task goes to
\* the registry and HedgedRead returns the primary's result.
PollPrimary ==
    /\ rd.pc = "pollPrimary"
    /\ IF Ended(rd.prim)
       THEN rd' = [rd EXCEPT !.pc = "returned", !.winner = "primary",
                             !.ret = Outcome(rd.prim), !.next = After(rd.prim)]
       ELSE rd' = [rd EXCEPT !.pc = "pollHedged"]
    /\ UNCHANGED notRead

\* The loop: hedged_task.wait_for(10 ms).  Ready: the primary task goes to
\* the registry and HedgedRead returns the hedged task's result.
PollHedged ==
    /\ rd.pc = "pollHedged"
    /\ IF Ended(rd.hedge)
       THEN rd' = [rd EXCEPT !.pc = "returned", !.winner = "hedged",
                             !.ret = Outcome(rd.hedge), !.next = After(rd.hedge)]
       ELSE rd' = [rd EXCEPT !.pc = "pollPrimary"]
    /\ UNCHANGED notRead

\* Both tasks have ended and the caller is done with the buffer.
ReadLeave ==
    /\ rd.pc = "returned"
    /\ rd.prim # "run"
    /\ rd.hedge # "run"
    /\ rd' = ReadReset(rd)
    /\ UNCHANGED notRead

\* HedgedRead has returned the hedged task's result and released
\* handle_mutex; the caller goes on while the primary task, which the
\* registry waits for, still runs its Read on the wrapped handle.
ReadOn ==
    /\ rd.pc = "returned"
    /\ rd.prim = "run"
    /\ rd.hedge # "run"
    /\ rd' = [ReadReset(rd) EXCEPT !.stale = Append(rd.stale, rd.prem)]
    /\ UNCHANGED notRead

\* The primary task of an earlier call: its Read on the wrapped handle
\* returns and has moved the position on, or it throws.
StaleFinish(j) ==
    /\ rd.stale[j] = 0
    /\ LET rest == [i \in 1..(Len(rd.stale) - 1) |->
                       IF i < j THEN rd.stale[i] ELSE rd.stale[i + 1]]
       IN \/ rd' = [rd EXCEPT !.stale = rest, !.pos = @ + 1]
          \/ rd' = [rd EXCEPT !.stale = rest]
    /\ UNCHANGED notRead

\* HedgedFileHandle::Close takes handle_mutex ...
CloseBegin ==
    /\ rd.pc = "idle"
    /\ ~rd.closed
    /\ rd' = [rd EXCEPT !.pc = "closing"]
    /\ UNCHANGED notRead

\* ... closes the wrapped handle and unlocks.
CloseEnd ==
    /\ rd.pc = "closing"
    /\ rd' = [rd EXCEPT !.pc = "idle", !.closed = TRUE]
    /\ UNCHANGED notRead

\* A step of HedgedRead or of a task is due now.
ReadUrgent ==
    \/ rd.pc = "closing"
    \/ \E j \in 1..Len(rd.stale) : rd.stale[j] = 0
    \/ rd.prim = "run" /\ rd.prem = 0
    \/ rd.hedge = "run" /\ rd.hrem = 0
    \/ FirstWaitDone
    \/ rd.pc \in {"pollPrimary", "pollHedged"}
          /\ (Ended(rd.prim) \/ Ended(rd.hedge))

\* A tick passes: the tasks read on and the first wait goes on.
ReadTick ==
    /\ ~ReadUrgent
    /\ rd.prim = "run" \/ rd.hedge = "run" \/ rd.stale # <<>>
    /\ rd' = [rd EXCEPT
                 !.stale = [i \in 1..Len(rd.stale) |-> rd.stale[i] - 1],
                 !.prem = IF rd.prim = "run" THEN @ - 1 ELSE @,
                 !.hrem = IF rd.hedge = "run" THEN @ - 1 ELSE @,
                 !.timer = IF rd.pc = "wait" THEN @ - 1 ELSE @]
    /\ UNCHANGED notRead

ReadNext ==
    \/ \E lp \in Latencies : ReadCall(lp)
    \/ PrimaryFinish
    \/ \E lh \in Latencies : FirstWaitReturn(lh)
    \/ HedgedFinish
    \/ PollPrimary
    \/ PollHedged
    \/ ReadLeave
    \/ ReadOn
    \/ \E j \in 1..Len(rd.stale) : StaleFinish(j)
    \/ CloseBegin
    \/ CloseEnd
    \/ ReadTick

ReadSpec == Init /\ [][ReadNext]_vars

\* ============================================================= ListFiles
\* The frame of ListFiles.
notList == <<config, lock, raceVars, host, wr, rd, hd, vfs>>

\* Attempt i of ListFiles is ready: its listing is complete.
Listed(i) == ls.a[i].st = "done"

\* HedgedFileSystem::ListFiles up to the bounded wait of HedgedRequest: the
\* results vector is made and the primary attempt is started; the wrapped
\* ListFiles starts to list after l ticks.
ListCall(l) ==
    /\ ls.pc = "idle"
    /\ ls' = [ListInit EXCEPT !.pc = "wait", !.timer = DEFAULT_HEDGING_DELAY,
                              !.a[1] = [st |-> "delay", rem |-> l, n |-> 0]]
    /\ UNCHANGED notList

\* The wrapped ListFiles of attempt i hands its next entry to the callback
\* of fn, which appends it to results under results_mutex; after the last
\* entry the attempt is ready.  The loop of ListFiles reads results without
\* the mutex: an append while it runs is a data race.
ListAppend(i) ==
    /\ \/ ls.a[i].st = "delay" /\ ls.a[i].rem = 0
       \/ ls.a[i].st = "list"
    /\ ls' = [ls EXCEPT
                 !.results = Append(@, [by |-> i, file |-> ls.a[i].n + 1]),
                 !.a[i].n = @ + 1,
                 !.a[i].st = IF ls.a[i].n + 1 = NumFiles THEN "done" ELSE "list",
                 !.torn = @ \/ ls.pc = "deliver"]
    /\ UNCHANGED notList

\* The loop over results starts: begin and end are taken.
StartLoop(w) == [ls EXCEPT !.pc = "deliver", !.winner = w,
                           !.last = Len(ls.results), !.idx = 1]

\* HedgedRequest: the bounded wait returns.  The primary is ready: its
\* result is returned.  Otherwise the hedged attempt is started; its wrapped
\* ListFiles starts to list after l ticks.
ListWaitDone == ls.pc = "wait" /\ (Listed(1) \/ ls.timer = 0)

ListWaitReturn(l) ==
    /\ ListWaitDone
    /\ IF Listed(1)
       THEN ls' = StartLoop(1)
       ELSE ls' = [ls EXCEPT !.pc = "waitany",
                             !.a[2] = [st |-> "delay", rem |-> l, n |-> 0]]
    /\ UNCHANGED notList

\* HedgedRequest: WaitForAny returns the first ready attempt; the other one
\* goes to the registry and lists on.
ListWaitAnyDone == ls.pc = "waitany" /\ (Listed(1) \/ Listed(2))

ListWaitAny ==
    /\ ListWaitAnyDone
    /\ ls' = StartLoop(IF Listed(1) THEN 1 ELSE 2)
    /\ UNCHANGED notList

\* The loop of ListFiles: the caller's callback gets the next element of
\* results.  After a racing append the element read is the entry or, the
\* vector having been moved, anything (0).
ListDeliver ==
    /\ ls.pc = "deliver"
    /\ ls.idx <= ls.last
    /\ \E v \in {ls.results[ls.idx].file} \cup (IF ls.torn THEN {0} ELSE {}) :
           ls' = [ls EXCEPT !.delivered = Append(@, v), !.idx = @ + 1]
    /\ UNCHANGED notList

\* The loop is at its end and ListFiles returns.
ListReturn ==
    /\ ls.pc = "deliver"
    /\ ls.idx > ls.last
    /\ ls' = [ls EXCEPT !.pc = "returned"]
    /\ UNCHANGED notList

\* Both attempts have ended; the caller calls again.
ListLeave ==
    /\ ls.pc = "returned"
    /\ \A i \in 1..2 : ls.a[i].st \in {"none", "done"}
    /\ ls' = ListInit
    /\ UNCHANGED notList

\* A step of ListFiles or of an attempt is due now.
ListUrgent ==
    \/ \E i \in 1..2 : \/ ls.a[i].st = "delay" /\ ls.a[i].rem = 0
                       \/ ls.a[i].st = "list"
    \/ ListWaitDone
    \/ ListWaitAnyDone
    \/ ls.pc = "deliver"

\* A tick passes: the wrapped ListFiles calls are one tick closer to their
\* listing and the bounded wait goes on.
ListTick ==
    /\ ~ListUrgent
    /\ \E i \in 1..2 : ls.a[i].st = "delay"
    /\ ls' = [ls EXCEPT
                 !.a = [i \in 1..2 |->
                          [ls.a[i] EXCEPT
                              !.rem = IF ls.a[i].st = "delay" THEN @ - 1 ELSE @]],
                 !.timer = IF ls.pc = "wait" THEN @ - 1 ELSE @]
    /\ UNCHANGED notList

ListNext ==
    \/ \E l \in Latencies : ListCall(l)
    \/ \E i \in 1..2 : ListAppend(i)
    \/ \E l \in Latencies : ListWaitReturn(l)
    \/ ListWaitAny
    \/ ListDeliver
    \/ ListReturn
    \/ ListLeave
    \/ ListTick

ListSpec == Init /\ [][ListNext]_vars

\* ================================================ operations on a handle
\* The frame of the hedged operations on a file handle.
notHandle == <<config, lock, raceVars, host, wr, rd, ls, vfs>>

\* The hedged operations of HedgedFileSystem that take a file handle.
HandleOps == {"GetFileSize", "GetLastModifiedTime", "GetVersionTag", "GetFileType"}

\* MockFileSystem::GetFileSize and its like: the call is counted, the delay
\* is slept and then the wrapped handle is used.  Used after the caller has
\* destroyed the handle, the access is undefined: the attempt ends with
\* whatever it read or the process is stopped.
AccessOutcomes(alive) == IF alive THEN {"done"} ELSE {"done", "crash"}

\* HedgedFileSystem::GetFileSize, GetLastModifiedTime, GetVersionTag and
\* GetFileType up to the bounded wait of HedgedRequest: fn captures the
\* HedgedFileHandle by reference and the primary attempt is started; the
\* wrapped operation uses the handle after l ticks.
HandleCall(k, l) ==
    /\ hd.pc = "idle"
    /\ hd' = [hd EXCEPT !.pc = "wait", !.op = k,
                        !.timer = DEFAULT_HEDGING_DELAY,
                        !.a[1] = [st |-> "delay", rem |-> l]]
    /\ UNCHANGED notHandle

\* The wrapped operation of attempt i has slept its delay and uses the
\* handle that fn refers to; the attempt is ready.
HandleAccess(i) ==
    /\ hd.a[i].st = "delay"
    /\ hd.a[i].rem = 0
    /\ \E r \in AccessOutcomes(hd.alive) :
           hd' = [hd EXCEPT !.a[i].st = r,
                            !.used = @ \cup (IF hd.alive THEN {} ELSE {i})]
    /\ UNCHANGED notHandle

\* HedgedRequest: the bounded wait returns.  The primary is ready: its
\* result is returned.  Otherwise the hedged attempt is started with the
\* same fn; its wrapped operation uses the handle after l ticks.
HandleWaitDone == hd.pc = "wait" /\ (hd.a[1].st = "done" \/ hd.timer = 0)

HandleWaitReturn(l) ==
    /\ HandleWaitDone
    /\ IF hd.a[1].st = "done"
       THEN hd' = [hd EXCEPT !.pc = "returned", !.winner = 1]
       ELSE hd' = [hd EXCEPT !.pc = "waitany",
                             !.a[2] = [st |-> "delay", rem |-> l]]
    /\ UNCHANGED notHandle

\* HedgedRequest: WaitForAny returns, the first ready attempt gives the
\* result, the other one goes to the registry and the operation returns.
HandleWaitAnyDone ==
    hd.pc = "waitany" /\ (hd.a[1].st = "done" \/ hd.a[2].st = "done")

HandleWaitAny ==
    /\ HandleWaitAnyDone
    /\ hd' = [hd EXCEPT !.pc = "returned",
                        !.winner = IF hd.a[1].st = "done" THEN 1 ELSE 2]
    /\ UNCHANGED notHandle

\* The caller destroys the file handle as soon as the operation returned:
\* ~HedgedFileHandle destroys the handle and the wrapped handle it owns.
HandleDestroy ==
    /\ hd.pc = "returned"
    /\ hd.alive
    /\ hd' = [hd EXCEPT !.alive = FALSE]
    /\ UNCHANGED notHandle

\* HedgedRequestFsEntry::WaitAll after the handle is destroyed: it returns
\* when every attempt handed to the registry has ended.
HandleWaitAllDone ==
    /\ hd.pc = "returned"
    /\ ~hd.alive
    /\ \A i \in 1..2 : hd.a[i].st \in {"none", "done"}

HandleWaitAll ==
    /\ HandleWaitAllDone
    /\ hd' = [hd EXCEPT !.pc = "drained"]
    /\ UNCHANGED notHandle

\* The caller opens the file again and has a new handle.
HandleLeave ==
    /\ hd.pc = "drained"
    /\ hd' = HandleInit
    /\ UNCHANGED notHandle

\* A step of the operation, of its caller or of an attempt is due now.
HandleUrgent ==
    \/ \E i \in 1..2 : hd.a[i].st = "delay" /\ hd.a[i].rem = 0
    \/ HandleWaitDone
    \/ HandleWaitAnyDone
    \/ hd.pc = "returned" /\ hd.alive
    \/ HandleWaitAllDone

\* A tick passes: the wrapped operations are one tick closer to their use
\* of the handle and the bounded wait goes on.
HandleTick ==
    /\ ~HandleUrgent
    /\ \A i \in 1..2 : hd.a[i].st # "crash"
    /\ \E i \in 1..2 : hd.a[i].st = "delay"
    /\ hd' = [hd EXCEPT
                 !.a = [i \in 1..2 |->
                          [hd.a[i] EXCEPT
                              !.rem = IF hd.a[i].st = "delay" THEN @ - 1 ELSE @]],
                 !.timer = IF hd.pc = "wait" THEN @ - 1 ELSE @]
    /\ UNCHANGED notHandle

HandleNext ==
    \/ \E k \in HandleOps, l \in Latencies : HandleCall(k, l)
    \/ \E i \in 1..2 : HandleAccess(i)
    \/ \E l \in Latencies : HandleWaitReturn(l)
    \/ HandleWaitAny
    \/ HandleDestroy
    \/ HandleWaitAll
    \/ HandleLeave
    \/ HandleTick

HandleSpec == Init /\ [][HandleNext]_vars

\* ==================================================== hedged_fs_wrap
\* The frame of the file system management functions.
notVfs == <<config, lock, raceVars, host, wr, rd, ls, hd>>

\* The file systems that are registered as sub systems.
FsNames == {"MockFileSystem", "S3FileSystem"}

\* HedgedFileSystem::GetName and the GetName of the wrapped file systems:
\* "HedgedFileSystem(%s)" of the name of the wrapped file system.
RECURSIVE GetName(_)
GetName(fs) ==
    IF fs.kind = "plain" THEN <<fs.name>>
    ELSE <<"HedgedFileSystem">> \o GetName(fs.wrapped)

\* The name of a file system wrapped n times.
RECURSIVE HedgedName(_, _)
HedgedName(b, n) ==
    IF n = 0 THEN <<b>> ELSE <<"HedgedFileSystem">> \o HedgedName(b, n - 1)

\* The names that hedged_fs_wrap is called with.
WrapNames ==
    {HedgedName(b, n) : b \in FsNames \cup {"NoSuchFileSystem"}, n \in 0..(MaxWrap - 1)}

\* The registry entries that a file system and the ones it wraps are bound to.
RECURSIVE Entries(_)
Entries(fs) ==
    IF fs.kind = "plain" THEN {} ELSE {fs.entry} \cup Entries(fs.wrapped)

\* The positions of sub_systems whose file system has the name.
Matches(subs, name) == {i \in DOMAIN subs : GetName(subs[i]) = name}

\* The sequence without its element at position i.
Erase(subs, i) ==
    [j \in 1..(Len(subs) - 1) |-> IF j < i THEN subs[j] ELSE subs[j + 1]]

\* A GetOrCreate that makes a new registry entry at every call.
GetOrCreateFresh(v) == [cache |-> v.made + 1, made |-> v.made + 1]

\* GetOrCreateHedgedRequestFsEntry: ObjectCache::GetOrCreate returns the
\* entry of the database and makes it at the first call.
GetOrCreateHedgedRequestFsEntry(v) ==
    IF v.cache = 0 THEN [cache |-> v.made + 1, made |-> v.made + 1]
    ELSE [cache |-> v.cache, made |-> v.made]

\* LoadInternal and the extensions loaded later:
\* VirtualFileSystem::RegisterSubSystem appends a file system.
VfsRegister(b) ==
    /\ Len(vfs.subs) < MaxSubs
    /\ vfs' = [vfs EXCEPT
                  !.subs = Append(@, [kind |-> "plain", name |-> b]),
                  !.op = "register", !.arg = <<b>>, !.err = FALSE]
    /\ UNCHANGED notVfs

\* HedgedFsWrapFunction for one row: the entry is taken from the object
\* cache, ExtractSubSystem takes the first sub system of that name out of
\* the virtual file system; there is none: InvalidInputException.
\* Otherwise a HedgedFileSystem that wraps it and holds the entry is
\* registered.
HedgedFsWrap(name) ==
    LET e == GetOrCreateHedgedRequestFsEntry(vfs)
        m == Matches(vfs.subs, name)
    IN  /\ IF m = {}
           THEN vfs' = [vfs EXCEPT !.cache = e.cache, !.made = e.made,
                                   !.op = "wrap", !.arg = name, !.err = TRUE]
           ELSE LET i == CHOOSE k \in m : \A j \in m : k <= j
                    wrapped_fs == [kind |-> "hedged", wrapped |-> vfs.subs[i],
                                   entry |-> e.cache]
                IN  vfs' = [vfs EXCEPT
                               !.subs = Append(Erase(vfs.subs, i), wrapped_fs),
                               !.cache = e.cache, !.made = e.made,
                               !.op = "wrap", !.arg = name, !.err = FALSE]
        /\ UNCHANGED notVfs

VfsNext ==
    \/ \E b \in FsNames : VfsRegister(b)
    \/ \E name \in WrapNames : HedgedFsWrap(name)

VfsSpec == Init /\ [][VfsNext]_vars

\* ================================================================ claims
\* A race of the caller is over: the hedged operation has its outcome.
RaceOver(c) == pc[c] = "done"

\* The attempt finished: its worker stored an outcome.
Finished(a) == a.st \in {"ready", "exit"}

\* ceil(l / d) for d > 0.
Ceil(l, d) == (l + d - 1) \div d

\* ------------------------------------------------------------------ C1
\* C1: fast path.  When the primary is ready as the delay-bounded wait
\* returns, the race returns the primary's outcome, exactly one attempt was
\* issued for the call and nothing is handed to the registry.
THM_C1 ==
    \A c \in Callers :
        (pc[c] \in {"fastget", "done"} /\ sched[c].fast) =>
            /\ Len(att[c]) = 1
            /\ att[c][1].own # "registry"
            /\ RaceOver(c) =>
                  /\ sched[c].win = 1
                  /\ sched[c].ret = (IF att[c][1].exc THEN "exc" ELSE "val")

WIT_C1 ==
    \E c \in Callers :
        RaceOver(c) /\ sched[c].fast /\ sched[c].ret = "val" /\ Len(att[c]) = 1

\* ------------------------------------------------------------------ C2
\* The race ran operations of one fixed latency L with delta < L < N * delta.
FixedLatencyRace(c) ==
    /\ RaceOver(c)
    /\ sched[c].fixed
    /\ sched[c].delta < sched[c].lat
    /\ sched[c].lat < sched[c].n * sched[c].delta

THM_C4 ==
    \A c \in Callers :
        (pc[c] = "get" /\ sched[c].ready # <<>>) =>
            LET w == Head(sched[c].ready)
            IN /\ Finished(att[c][w])
               /\ \A i \in 1..Len(att[c]) : ~att[c][i].old
               /\ \A j \in 1..Len(sched[c].ready) : w <= sched[c].ready[j]
               /\ \A i \in 1..Len(att[c]) :
                     i < w => \E j \in 1..Len(sched[c].unready) : sched[c].unready[j] = i

\* Two attempts are ready as the scheduler inspects them.
WIT_C4 ==
    \E c \in Callers : pc[c] = "get" /\ Len(sched[c].ready) >= 2

\* ------------------------------------------------------------------ C5
\* C5: a race whose winner failed ends with that failure, on the fast path
\* and after hedging; a race whose winner succeeded ends with its value.
THM_C5 ==
    \A c \in Callers :
        RaceOver(c) =>
            /\ sched[c].win \in 1..Len(att[c])
            /\ sched[c].ret = (IF att[c][sched[c].win].exc THEN "exc" ELSE "val")

\* A race that hedged ends with the failure of its winner.
WIT_C5 ==
    \E c \in Callers :
        RaceOver(c) /\ Len(att[c]) > 1 /\ sched[c].ret = "exc"

\* ------------------------------------------------------------------ C6
\* A step of the race of c issues an attempt after the primary.
IssuesHedge(c) == Len(att[c]) >= 1 /\ Len(att'[c]) > Len(att[c])

\* The primary of the finished race failed before the delay threshold.
PrimaryFailedEarly(c) ==
    RaceOver(c) /\ att[c][1].exc /\ sched[c].lat < sched[c].delta

\* C6: hedging is not retry.  An attempt is issued only while no earlier
\* attempt of the race has finished, failed or not; a race whose primary
\* fails before the delay threshold issues one attempt and ends with that
\* failure.
THM_C6 ==
    [][\A c \in Callers :
          /\ IssuesHedge(c) =>
                \A i \in 1..Len(att[c]) : att[c][i].st = "run"
          /\ PrimaryFailedEarly(c)' =>
                (Len(att[c]) = 1 /\ sched[c].win = 1 /\ sched[c].ret = "exc")'
      ]_vars

WIT_C6 == \E c \in Callers : PrimaryFailedEarly(c) /\ Len(att[c]) = 1

\* ------------------------------------------------------------------ C7
\* C7 as the specification states it: when a race with more than one
\* attempt returns, every attempt but the winner is in the registry.
CEX_C7 ==
    \A c \in Callers :
        (RaceOver(c) /\ Len(att[c]) > 1) =>
            \A i \in 1..Len(att[c]) :
                i # sched[c].win => att[c][i].own = "registry"

\* ------------------------------------------------------------------ C8
\* The caller has its winner and waits for a loser of its race to finish.
BlockedOnOwnLoser(c) ==
    /\ pc[c] = "unwind"
    /\ \E i \in 1..Len(att[c]) :
          i # sched[c].win /\ att[c][i].st = "run" /\ att[c][i].rem > 0

\* The caller has its winner and waits for cache_mutex, which WaitAll holds
\* while it waits for a loser of an earlier race.
BlockedOnOtherLoser(c) ==
    /\ pc[c] = "handoff"
    /\ lock = "waitall"
    /\ \E j \in 1..Len(pending) : pending[j].st = "run" /\ pending[j].rem > 0

\* C8 as the specification states it: a race that has a ready attempt never
\* waits for a loser, neither one of its own nor one the registry holds.
CEX_C8 ==
    \A c \in Callers : ~BlockedOnOwnLoser(c) /\ ~BlockedOnOtherLoser(c)

\* ------------------------------------------------------------------ C9
\* Every race has completed.
AllRacesOver == \A c \in Callers : pc[c] \in {"idle", "done"}

\* This step is the return of WaitAll.
WaitAllReturns == drainer = "waiting" /\ drainer' = "idle"

\* C9: drain postcondition.  When WaitAll returns after every race has
\* completed, the pending store is empty and no attempt is running: every
\* loser the store held and every attempt the callers hold has exited.
THM_C9 ==
    [][(WaitAllReturns /\ AllRacesOver) =>
          /\ pending' = <<>>
          /\ \A j \in 1..Len(pending) : pending[j].st = "exit"
          /\ \A c \in Callers : \A i \in 1..Len(att[c]) :
                att[c][i].st \in {"exit", "moved"}
      ]_vars

\* WaitAll is about to return from a store that held a loser, all races over.
WIT_C9 ==
    /\ AllRacesOver
    /\ drainer = "waiting"
    /\ pending # <<>>
    /\ \A j \in 1..Len(pending) : pending[j].wdone

\* ----------------------------------------------------------------- C10
\* The attempts nobody has joined yet.
Unjoined ==
    \/ \E c \in Callers : \E i \in 1..Len(att[c]) :
          att[c][i].own = "sched" /\ ~att[c][i].joined
    \/ \E j \in 1..Len(pending) : ~pending[j].wdone

\* The losers of the store that are not joined yet.
UnjoinedLosers(p) == SelectSeq(p, LAMBDA e : ~e.wdone)

\* No handle is destroyed while its worker runs; a finished race holds no
\* attempt any more; while an attempt is to be joined some thread can move.
NoLeak ==
    /\ \A c \in Callers : \A i \in 1..Len(att[c]) :
          /\ att[c][i].own = "destroyed" =>
                (att[c][i].st = "exit" /\ att[c][i].joined)
          /\ RaceOver(c) => att[c][i].own \in {"destroyed", "registry"}
    /\ \A j \in 1..Len(pending) : pending[j].wdone => pending[j].st = "exit"
    /\ Unjoined => (Urgent \/ Timed)

\* C10: no attempt is leaked.  NoLeak holds after every step, a caller
\* forgets its attempts only once each is destroyed or in the registry, and
\* the registry drops a loser only after its waiter joined it.
THM_C10 ==
    [][/\ NoLeak'
       /\ \A c \in Callers :
             (att[c] # <<>> /\ att'[c] = <<>>) =>
                \A i \in 1..Len(att[c]) : att[c][i].own \in {"destroyed", "registry"}
       /\ Len(UnjoinedLosers(pending')) < Len(UnjoinedLosers(pending)) =>
             /\ Len(pending') = Len(pending)
             /\ \E j \in 1..Len(pending) :
                   /\ pending[j].st = "exit"
                   /\ ~pending[j].wdone
                   /\ pending'[j].wdone
      ]_vars

\* A race ended with a failure after it destroyed a loser that finished in a
\* later quantum than the winner.
WIT_C10 ==
    \E c \in Callers :
        /\ RaceOver(c)
        /\ sched[c].ret = "exc"
        /\ \E i \in 1..Len(att[c]) :
              /\ i # sched[c].win
              /\ att[c][i].own = "destroyed"
              /\ att[c][i].joined
              /\ ~att[c][i].old
              /\ att[c][sched[c].win].old

\* ----------------------------------------------------------------- C11
\* The ticks since the race of c started, while its primary still runs.
Elapsed(c) == sched[c].lat - att[c][1].rem

\* C11: no retroactive configuration effect.  Whatever the configuration is
\* changed to while a race is in progress, each bounded wait of the race
\* ends a multiple of the delay read at its start after the start (attempt
\* k + 1 is due at k times that delay), and the race waits with a deadline
\* only while it holds fewer attempts than the maximum read at its start.
THM_C11 ==
    \A c \in Callers :
        pc[c] = "wait" =>
            /\ att[c][1].st = "run" =>
                  sched[c].waitRem + Elapsed(c) = Len(att[c]) * sched[c].delta
            /\ Len(att[c]) > 1 => Len(att[c]) < sched[c].n

\* A race waits for its third attempt's turn while both the delay and the
\* maximum configured now differ from the ones it started with.
WIT_C11 ==
    \E c \in Callers :
        /\ pc[c] = "wait"
        /\ Len(att[c]) = 2
        /\ att[c][1].st = "run"
        /\ sched[c].waitRem = sched[c].delta
        /\ config.delays_ms[sched[c].op] # sched[c].delta
        /\ config.max_hedged_request_count # sched[c].n

\* ----------------------------------------------------------------- C12
\* This step starts a race of c.
StartsRace(c) == pc[c] = "idle" /\ pc'[c] = "wait"

CEX_C13 ==
    \A o \in HedgedRequestOperation : config.delays_ms[o] >= 0

\* ----------------------------------------------------------------- C14
\* C14: the maximum attempt count of every reachable configuration is at
\* least 1, after any sequence of SetMaxHedgedRequestCount and SetConfig
\* updates.
CEX_C14 == config.max_hedged_request_count >= 1

\* ----------------------------------------------------------------- C15
\* C15: configuration reads are atomic with respect to writes.  What
\* GetConfig returned is the whole configuration as it stood after the
\* updates that had finished when it ran, never one in which only part of
\* an update shows.
THM_C15 == host.got # <<>> => host.got = host.gotAt

\* A reader holds a configuration that a finished SetConfig stored, while
\* another SetConfig call waits to store a different one.
WIT_C15 ==
    /\ host.got # <<>>
    /\ host.got[1] # DefaultConfig
    /\ host.got[1] \in ClientConfigs
    /\ \E t \in Threads : host.pc[t] = "set" /\ host.arg[t] # host.got[1]

\* ----------------------------------------------------------------- C16
\* C16: the delays of the operation kinds are independent.  A settings
\* update of the delay of one kind stores a configuration that differs from
\* the one stored before in that kind's delay only: the delays of the other
\* kinds and the maximum attempt count stay.
CEX_C16 ==
    [][\A t \in Threads :
          host.field[t] # "none" =>
              /\ \A o \in HedgedRequestOperation \ {host.field[t]} :
                    (host.pc[t] = "set" /\ host'.pc[t] = "copy") =>
                        config'.delays_ms[o] = config.delays_ms[o]
              /\ (host.pc[t] = "copy" /\ host'.pc[t] = "idle") =>
                    config'.max_hedged_request_count =
                        config.max_hedged_request_count
      ]_vars

\* ----------------------------------------------------------------- C17
\* C17: write and mutate operations are never hedged.  Every call of one
\* invokes the wrapped operation exactly once, whatever its latency, issues
\* no asynchronous attempt and adds nothing to the registry.
THM_C17 ==
    /\ wr.invoked = wr.calls
    /\ wr.async = 0
    /\ pending = <<>>
    /\ \A c \in Callers : att[c] = <<>>

\* A write operation whose wrapped operation outlasted the hedging delay has
\* returned.
WIT_C17 ==
    /\ wr.op = "none"
    /\ wr.calls = MaxWrites
    /\ wr.invoked = MaxWrites
    /\ wr.lat > DEFAULT_HEDGING_DELAY

\* ----------------------------------------------------------------- C18
\* The losers of the registry whose operation still runs, and those of them
\* whose operation is at its end.
NumRun(p) == Len(SelectSeq(p, LAMBDA e : e.st = "run"))
NumDue(p) == Len(SelectSeq(p, LAMBDA e : e.st = "run" /\ e.rem = 0))

CEX_C19 ==
    (rd.pc = "returned" /\ rd.ret = "val") =>
        /\ rd.buffer = rd.winner
        /\ rd.wrote \subseteq {rd.winner}

\* ----------------------------------------------------------------- C20
\* C20: hedged ListFiles hands to the caller's callback exactly the entries
\* of one complete listing, each once, also when a hedge was issued and has
\* listed concurrently: when ListFiles has returned, the callback has got
\* every entry of the directory once and nothing else.
CEX_C20 ==
    ls.pc = "returned" =>
        /\ Len(ls.delivered) = NumFiles
        /\ \A f \in 1..NumFiles :
               \E k \in 1..Len(ls.delivered) : ls.delivered[k] = f

\* C21: after a hedged operation on a file handle returned and the caller
\* destroyed the handle, no attempt of the operation uses the handle.
CEX_C21 == hd.used = {}

\* C22: hedged_fs_wrap of a name that no registered file system has raises
\* an error and leaves the registered file systems as they were; for a
\* registered name it takes that file system out and registers one
\* HedgedFileSystem that wraps it, bound to the one entry of the database.
THM_C22 ==
    [][vfs'.op = "wrap" =>
         LET m == Matches(vfs.subs, vfs'.arg)
         IN  IF m = {}
             THEN vfs'.err /\ vfs'.subs = vfs.subs
             ELSE /\ ~vfs'.err
                  /\ Len(vfs'.subs) = Len(vfs.subs)
                  /\ \E i \in m :
                       /\ \A j \in 1..(Len(vfs.subs) - 1) :
                            vfs'.subs[j] = Erase(vfs.subs, i)[j]
                       /\ vfs'.subs[Len(vfs.subs)].kind = "hedged"
                       /\ vfs'.subs[Len(vfs.subs)].wrapped = vfs.subs[i]
                  /\ \A j \in DOMAIN vfs'.subs :
                       Entries(vfs'.subs[j]) \subseteq {1}]_vars

WIT_C22 ==
    /\ vfs.op = "wrap"
    /\ ~vfs.err
    /\ \E i, j \in DOMAIN vfs.subs :
         /\ i # j
         /\ vfs.subs[i].kind = "hedged"
         /\ vfs.subs[j].kind = "hedged"
         /\ vfs.subs[i].entry = vfs.subs[j].entry

\* C23: an attempt stores its outcome, a value or an error, before it sets
\* the token: while the caller waits for or picks a winner, a token that is
\* set comes with an attempt that is ready and has signalled.
THM_C23 ==
    \A c \in Callers :
        (tok[c] /\ pc[c] \in {"wait", "check", "waitany", "scan", "get"}) =>
            \E i \in 1..Len(att[c]) : att[c][i].st = "exit" /\ IsReady(att[c][i])

WIT_C23 ==
    \E c \in Callers :
        /\ tok[c]
        /\ pc[c] = "waitany"
        /\ \E i \in 1..Len(att[c]) : att[c][i].st = "exit" /\ att[c][i].exc
        /\ \E i \in 1..Len(att[c]) : att[c][i].st = "run"

\* C24: setting the token twice is setting it once: in the wait without
\* deadline the token is set as soon as an attempt has signalled, however
\* many attempts have signalled, so the waiter wakes.
THM_C24 ==
    \A c \in Callers :
        (pc[c] = "waitany" /\ \E i \in 1..Len(att[c]) : att[c][i].st = "exit")
            => tok[c] /\ ENABLED WaitAnyReturn(c)

WIT_C24 ==
    \E c \in Callers :
        /\ pc[c] = "waitany"
        /\ tok[c]
        /\ \E i, j \in 1..Len(att[c]) :
               i # j /\ att[c][i].st = "exit" /\ att[c][j].st = "exit"

\* C25: attempts are issued in order, each after one more full delay: the
\* step that issues attempt k + 1 appends it behind the k attempts issued
\* before, finds none of them ready, and comes k delays after the start of
\* the race, at the end of a bounded wait that ran to its deadline.
THM_C25 ==
    [][\A c \in Callers :
          IssuesHedge(c) =>
              LET k == Len(att[c])
              IN /\ Len(att'[c]) = k + 1
                 /\ \A i \in 1..k : att'[c][i] = att[c][i]
                 /\ \A i \in 1..k : ~IsReady(att[c][i])
                 /\ sched[c].waitRem = 0
                 /\ Elapsed(c) = k * sched[c].delta
      ]_vars

\* The third attempt of a race has just been issued, two delays after the
\* start, while the first two still run.
WIT_C25 ==
    \E c \in Callers :
        /\ pc[c] = "waitany"
        /\ Len(att[c]) = 3
        /\ \A i \in 1..3 : att[c][i].st = "run"
        /\ Elapsed(c) = 2 * sched[c].delta
        /\ att[c][2].rem < att[c][3].rem

\* C26: when the wait without deadline returns, an attempt of the race is
\* ready, whatever the bounded waits reset before: the wait returns only
\* with a ready attempt, the partition that follows finds one, and the Get
\* of the first ready future has a future to take.
THM_C26 ==
    \A c \in Callers :
        /\ pc[c] # "undefined"
        /\ (pc[c] = "waitany" /\ tok[c]) => AnyReady(c)
        /\ pc[c] = "scan" => AnyReady(c)
        /\ pc[c] = "get" =>
              /\ sched[c].ready # <<>>
              /\ IsReady(att[c][Head(sched[c].ready)])

\* The wait without deadline of a race with three attempts has returned,
\* the bounded waits before it were reset, and the partition found exactly
\* one attempt ready.
WIT_C26 ==
    \E c \in Callers :
        /\ pc[c] = "get"
        /\ Len(att[c]) = 3
        /\ sched[c].n = 3
        /\ Len(sched[c].ready) = 1
        /\ Head(sched[c].ready) # 1

\* The elements of a sequence of numbers, which ascends strictly.
Ascends(q) == \A i, j \in 1..Len(q) : i < j => q[i] < q[j]
Elems(q) == {q[i] : i \in 1..Len(q)}

\* C27: WaitForAny partitions its futures: each inspected future is in
\* exactly one of the ready and the pending list, both lists keep the input
\* order, and a future is put among the pending ones exactly when the loop
\* saw it not ready.
THM_C27 ==
    [][\A c \in Callers :
          /\ pc'[c] \in {"scan", "get"} =>
                /\ Elems(sched'[c].ready) \cap Elems(sched'[c].unready) = {}
                /\ Elems(sched'[c].ready) \cup Elems(sched'[c].unready)
                      = 1..(sched'[c].k - 1)
                /\ Ascends(sched'[c].ready) /\ Ascends(sched'[c].unready)
                /\ Len(sched'[c].ready) + Len(sched'[c].unready) = sched'[c].k - 1
                /\ pc'[c] = "get" => sched'[c].k = Len(att'[c]) + 1
          /\ (pc[c] = "scan" /\ sched'[c].k = sched[c].k + 1) =>
                /\ sched[c].k \in Elems(sched'[c].unready)
                      <=> ~IsReady(att[c][sched[c].k])
                /\ sched[c].k \in Elems(sched'[c].ready)
                      <=> IsReady(att[c][sched[c].k])
      ]_vars

\* One attempt of two was ready and one was not: one pending future.
WIT_C27 ==
    \E c \in Callers :
        /\ pc[c] = "get"
        /\ Len(att[c]) = 2
        /\ sched[c].ready = <<2>>
        /\ sched[c].unready = <<1>>
        /\ att[c][1].st = "run"

\* The outcome an attempt holds: its result and its exception.
Stored(a) == <<a.res, a.exc>>

\* C28: an attempt holds a result or an error, never both; the outcome is
\* written in the step that makes the attempt ready and in no other step,
\* and afterwards only Get changes it, by taking the result out; a handle
\* that is moved into the registry takes its outcome along.
THM_C28 ==
    [][\A c \in Callers : \A i \in 1..Len(att'[c]) :
          /\ ~(att'[c][i].res # "none" /\ att'[c][i].exc)
          /\ ~IsReady(att'[c][i]) /\ att'[c][i].st # "moved" =>
                Stored(att'[c][i]) = <<"none", FALSE>>
          /\ IsReady(att'[c][i]) => (att'[c][i].res = "none") = att'[c][i].exc
          /\ i <= Len(att[c]) =>
                /\ Stored(att'[c][i]) # Stored(att[c][i]) =>
                      \/ att[c][i].st = "run" /\ att'[c][i].st = "ready"
                      \/ att[c][i].st # "moved" /\ att'[c][i] = MovedFrom
                      \/ /\ pc[c] \in {"get", "fastget"}
                         /\ att[c][i].res = "set"
                         /\ att'[c][i].res = "taken"
                         /\ att'[c][i].exc = att[c][i].exc
                         /\ att'[c][i].joined
                /\ (att[c][i].st = "run" /\ att'[c][i].st = "ready") =>
                      Stored(att[c][i]) = <<"none", FALSE>>
      ]_vars

\* A race returned the result of its winner, which Get took out, while
\* another attempt of the race holds an error.
WIT_C28 ==
    \E c \in Callers :
        /\ RaceOver(c)
        /\ \E i, j \in 1..Len(att[c]) :
              /\ att[c][i].res = "taken"
              /\ ~att[c][i].exc
              /\ att[c][j].exc
              /\ att[c][j].res = "none"

\* This step hands a loser to the registry.
HandsOver == \E c \in Callers : pc[c] = "handoff" /\ sched'[c].k = sched[c].k + 1

\* C29: readiness only grows.  An attempt that is ready stays ready in
\* every later step, in the caller's hands and in the registry; an attempt
\* whose Get or Wait has returned or thrown is ready.
THM_C29 ==
    [][/\ \A c \in Callers : \A i \in 1..Len(att'[c]) :
             /\ (i <= Len(att[c]) /\ IsReady(att[c][i])) =>
                   \/ IsReady(att'[c][i])
                   \/ /\ att'[c][i].st = "moved"
                      /\ \/ Len(pending') <= Len(UnjoinedLosers(pending))
                         \/ pending'[Len(pending')].st = "exit"
             /\ (att'[c][i].joined /\ att'[c][i].st # "moved") =>
                   IsReady(att'[c][i])
       /\ \A j \in 1..Len(pending') :
             /\ pending'[j].wdone => pending'[j].st = "exit"
             /\ (~HandsOver /\ j <= Len(pending) /\ pending[j].st = "exit") =>
                   pending'[j].st = "exit"
      ]_vars

\* Get has thrown the error of the winner, which is ready, and a loser
\* that is ready as well waits to be destroyed.
WIT_C29 ==
    \E c \in Callers :
        /\ pc[c] = "unwind"
        /\ att[c][sched[c].win].joined
        /\ att[c][sched[c].win].exc
        /\ IsReady(att[c][sched[c].win])
        /\ \E i \in 1..Len(att[c]) :
              i # sched[c].win /\ att[c][i].old /\ IsReady(att[c][i])

\* C30: AddPendingRequest prunes as it adds.  When it returns, the store
\* holds the waiters that were queued and not finished, as they were and in
\* their order, followed by the new one unless that has finished already:
\* every finished waiter is gone and no waiter of a running loser is
\* removed or changed.
THM_C30 ==
    [][\A c \in Callers :
          (pc[c] = "handoff" /\ sched'[c].k = sched[c].k + 1) =>
              LET a == att[c][sched[c].unready[sched[c].k]]
                  kept == UnjoinedLosers(pending)
                  n == Len(kept)
              IN /\ \A j \in 1..Len(pending') : ~pending'[j].wdone
                 /\ Len(pending') \in {n, n + 1}
                 /\ \A j \in 1..n : pending'[j] = kept[j]
                 /\ NumRun(pending') =
                       NumRun(pending) + (IF a.st = "run" THEN 1 ELSE 0)
                 /\ Len(pending') = n => a.st # "run"
                 /\ Len(pending') = n + 1 =>
                       /\ pending'[n + 1].rem = a.rem
                       /\ (pending'[n + 1].st = "run") = (a.st = "run")
      ]_vars

\* An AddPendingRequest of the race has erased a finished waiter and the
\* store holds the waiter of a loser that still runs.
WIT_C30 ==
    \E c \in Callers :
        /\ pc[c] = "ret"
        /\ sched[c].erased
        /\ \E j \in 1..Len(pending) : pending[j].st = "run" /\ pending[j].rem > 0

\* C31: a losing attempt's failure is observed by nobody.  The caller of a
\* race gets the outcome of the winner, an exception exactly when the winner
\* failed, whatever the other attempts stored; no waiter of the registry
\* ends with a loser's exception, and WaitAll (so the destructor of the
\* registry too) never leaves with one.
THM_C31 ==
    /\ drainer \in {"idle", "waiting"}
    /\ \A j \in 1..Len(pending) : ~pending[j].wexc
    /\ \A c \in Callers :
          RaceOver(c) =>
              /\ sched[c].win \in 1..Len(att[c])
              /\ sched[c].ret = "exc" <=> att[c][sched[c].win].exc

\* A race has returned the winner's value although another of its attempts
\* had failed, and WaitAll is waiting on a loser that failed before it was
\* handed to the registry.
WIT_C31 ==
    /\ drainer = "waiting"
    /\ \E j \in 1..Len(pending) : pending[j].exc /\ ~pending[j].wdone
    /\ \E c \in Callers :
          /\ RaceOver(c)
          /\ sched[c].ret = "val"
          /\ \E i \in 1..Len(att[c]) : i # sched[c].win /\ att[c][i].exc

\* ----------------------------------------------------------------- C32
\* The caller is inside a race one of whose attempts has terminated.
HoldsTerminated(c) ==
    /\ pc[c] \notin {"idle", "done"}
    /\ \E i \in 1..Len(att[c]) : att[c][i].st = "exit"

LoserStillRuns == \E j \in 1..Len(pending) : pending[j].st = "run" /\ pending[j].rem > 0

\* C33 as the specification states it: cache_mutex is not held across the
\* wait for a loser; while a loser of the store still runs the mutex is
\* free, so that GetConfig (the start of a race), an update of the
\* configuration and AddPendingRequest get it without waiting for the loser.
CEX_C33 == LoserStillRuns => lock = "free"

\* ----------------------------------------------------------------- C34
\* What a race holds for itself: its position, its token, its locals and
\* its in-flight set.
RaceState(c) == <<pc[c], tok[c], sched[c], att[c]>>

\* This step is taken by the caller c or by the worker of one of its
\* attempts (the passing of time moves no position, token or worker state).
Moved(c) ==
    \/ pc'[c] # pc[c]
    \/ tok'[c] # tok[c]
    \/ sched'[c].k # sched[c].k
    \/ Len(att'[c]) # Len(att[c])
    \/ \E i \in 1..Len(att[c]) : att'[c][i].st # att[c][i].st

\* Some attempt of the race of c has signalled and exited.
OwnExit(c) == \E i \in 1..Len(att[c]) : att[c][i].st = "exit"

\* C34: races are independent.  A step of one race, or of a worker of one
\* of its attempts, changes nothing of what another race holds; a wait of a
\* race ends before its timer only when an attempt of its own has exited;
\* the winner it returns is an attempt of its own that has exited; it issues
\* a hedge only when its own timer has expired with none of its own attempts
\* ready, and then it does issue it while it may escalate.
THM_C34 ==
    [][\A d \in Callers :
          /\ \A c \in Callers \ {d} : Moved(c) => RaceState(d)' = RaceState(d)
          /\ (pc[d] = "wait" /\ pc'[d] = "check" /\ sched[d].waitRem > 0) => OwnExit(d)
          /\ (pc[d] = "waitany" /\ pc'[d] = "scan") => OwnExit(d)
          /\ (pc[d] # "done" /\ pc'[d] = "done") =>
                /\ sched'[d].win \in 1..Len(att[d])
                /\ att[d][sched'[d].win].st = "exit"
          /\ IssuesHedge(d) => (sched[d].waitRem = 0 /\ ~AnyReady(d))
          /\ (pc[d] = "check" /\ pc'[d] # "check" /\ ~AnyReady(d) /\ MayEscalate(d))
                => IssuesHedge(d)
      ]_vars

\* Two races run at once: an attempt of one has exited and its token is
\* set, the other waits without deadline on its own token, which is not set,
\* with a hedge in flight and none of its attempts finished.
WIT_C34 ==
    \E c, d \in Callers :
        /\ c # d
        /\ pc[c] = "waitany" /\ OwnExit(c) /\ tok[c]
        /\ pc[d] = "waitany" /\ ~tok[d] /\ Len(att[d]) = 2
        /\ \A i \in 1..Len(att[d]) : att[d][i].st = "run"

\* ----------------------------------------------------------------- C35
\* The attempts of c whose handle goes from the race to the registry in
\* this step.
Gained(c) ==
    {i \in 1..Len(att[c]) :
        /\ Len(att'[c]) = Len(att[c])
        /\ att[c][i].own = "sched"
        /\ att'[c][i].own = "registry"}

\* C35: exclusive ownership.  After every step a handle the registry owns
\* has left nothing with the race (the race keeps a moved-from handle with
\* no state and no worker, not among the ready futures and not the
\* winner), and the two lists of the partition name each attempt at most
\* once between them.  A hand-over step moves exactly one handle the race
\* held to the registry and adds at most one waiter to the store; no other
\* step moves a handle or adds a waiter; a moved handle never comes back,
\* and a race destroys only handles it holds.
THM_C35 ==
    [][/\ \A c \in Callers :
             /\ \A i \in 1..Len(att'[c]) :
                   /\ att'[c][i].own = "registry" <=> att'[c][i].st = "moved"
                   /\ att'[c][i].st = "moved" =>
                         /\ att'[c][i] = MovedFrom
                         /\ i \notin Elems(sched'[c].ready)
                         /\ i \in Elems(sched'[c].unready)
                         /\ i # sched'[c].win
             /\ Ascends(sched'[c].ready)
             /\ Ascends(sched'[c].unready)
             /\ Elems(sched'[c].ready) \cap Elems(sched'[c].unready) = {}
             /\ \A i \in 1..Len(att[c]) :
                   /\ (att[c][i].st = "moved" /\ Len(att'[c]) = Len(att[c]))
                         => att'[c][i] = att[c][i]
                   /\ (Len(att'[c]) = Len(att[c]) /\ att[c][i].own # "destroyed"
                          /\ att'[c][i].own = "destroyed")
                         => att[c][i].own = "sched"
       /\ IF HandsOver
          THEN /\ \E c \in Callers :
                     /\ Cardinality(Gained(c)) = 1
                     /\ \A d \in Callers \ {c} : Gained(d) = {}
               /\ Len(pending') <= Len(pending) + 1
          ELSE /\ \A c \in Callers : Gained(c) = {}
               /\ Len(pending') <= Len(pending)
      ]_vars

\* A race has handed a running loser to the registry: the store holds its
\* waiter, the race holds the moved-from handle and its winner.
WIT_C35 ==
    \E c \in Callers :
        /\ pc[c] = "ret"
        /\ \E i \in 1..Len(att[c]) : att[c][i] = MovedFrom
        /\ att[c][sched[c].win].own = "sched"
        /\ \E j \in 1..Len(pending) : pending[j].st = "run"

\* ----------------------------------------------------------------- C36
\* C36 as the specification states it: a call of HedgedRead that follows one
\* that returned bytes starts where that one ended, at its start plus the
\* bytes it returned, whichever task had won.
CEX_C36 ==
    (rd.pc \in {"wait", "pollPrimary", "pollHedged", "returned"} /\ rd.due >= 0)
        => rd.start = rd.due

\* ----------------------------------------------------------------- C37
\* The tasks and calls that are executing an operation on the wrapped
\* handle: the Read of the primary task of this call, the Reads of the
\* primary tasks of earlier calls, and Close.
WrappedUsers ==
    (IF rd.prim = "run" THEN 1 ELSE 0) + Len(rd.stale)
        + (IF rd.pc = "closing" THEN 1 ELSE 0)

\* C37 as the specification states it: at most one operation runs on the
\* wrapped handle at any time.
CEX_C37 == WrappedUsers <= 1

CEX_C39 == (\A t \in Threads : host.pc[t] = "idle") => config = host.want


====
